---- MODULE Spec2Model ----
(***************************************************************************)
(* A model of UniversalAPIGenerator (universal_api_generator.py): endpoint *)
(* discovery, method probing, the parameter sweep, parameter type          *)
(* inference, response schema inference, CRUD classification and the       *)
(* summary, and of SwaggerGenerator (swagger_generator.py), which emits    *)
(* the OpenAPI document.  Strings of the program are sequences of          *)
(* one-character strings, so that strip(), startswith(), isdigit(),        *)
(* lower() and the regular expressions are computed character by           *)
(* character.                                                              *)
(***************************************************************************)
EXTENDS Integers, Sequences, FiniteSets, TLC

VARIABLES
    custom_endpoints,      \* self.custom_endpoints: [is_none, items]
    pc,                    \* position of the control flow
    mode,                  \* discover_endpoints: the branch of `if self.custom_endpoints:` taken
    idx,                   \* index of the next item of the running discovery loop
    discovered_endpoints,  \* discover_endpoints: the local list
    doc_discovered,        \* _discover_from_documentation: the local list `discovered`
    request,               \* the last HTTP request issued
    response,              \* its outcome: a response, or a raised exception
    slept,                 \* whether time.sleep(self.delay) followed the last request
    sent,                  \* the requests issued by the running discover_endpoints call
    all_raised,            \* whether every one of them raised
    endpoints,             \* generate_analysis: the list discover_endpoints returned
    ep_idx,                \* generate_analysis: index of the endpoint being analyzed
    m_idx,                 \* index of the next verb (_discover_methods) or method (analyze_endpoint)
    methods,               \* _discover_methods: the local list, then analysis['methods']
    method_status,         \* outcome of each verb probe of the running _discover_methods call
    endpoint_analyses,     \* generate_analysis: endpoint -> analysis
    result,                \* what generate_analysis returned
    param_name,            \* _analyze_parameter_comprehensive: the name of the parameter
    param_info,            \* _analyze_parameter_comprehensive: the parameter definition
    sweep_method,          \* _analyze_parameter_comprehensive: the method argument
    sweep_idx,             \* index of the next alternative test value
    accepted_values,       \* validation_info['accepted_values']
    rejected_values,       \* validation_info['rejected_values']
    validation_patterns,   \* validation_info['validation_patterns']
    required,              \* validation_info['required']
    param_type,            \* validation_info['type']
    sweep_log,             \* the probes of the sweep: [kind, value, outcome]
    type_input,            \* _infer_parameter_type: the argument
    type_result,           \* _infer_parameter_type: the value returned
    schema_input,          \* _analyze_response_schema_comprehensive: the response
    schema_result,         \* _analyze_response_schema_comprehensive: the schema returned
    kind_input,            \* _infer_type_comprehensive: the value
    kind_result,           \* _infer_type_comprehensive: the kind returned
    crud_input,            \* _identify_crud_operations: the endpoint
    crud_result,           \* _identify_crud_operations: the classification returned
    analysis,              \* SwaggerGenerator: self.analysis
    swagger_spec           \* SwaggerGenerator.generate_swagger_spec: the document returned

vars == <<custom_endpoints, pc, mode, idx, discovered_endpoints, doc_discovered, request,
          response, slept, sent, all_raised, endpoints, ep_idx, m_idx, methods, method_status,
          endpoint_analyses, result, param_name, param_info, sweep_method, sweep_idx,
          accepted_values, rejected_values, validation_patterns, required, param_type,
          sweep_log,
          type_input, type_result, schema_input, schema_result, kind_input,
          kind_result, crud_input, crud_result, analysis, swagger_spec>>

discoveryVars == <<custom_endpoints, mode, idx, discovered_endpoints, doc_discovered, sent,
                   all_raised, endpoints>>
analysisVars == <<ep_idx, m_idx, methods, method_status, endpoint_analyses, result>>
sweepVars == <<param_name, param_info, sweep_method, sweep_idx, accepted_values,
               rejected_values, validation_patterns, required, param_type, sweep_log>>
typeVars == <<type_input, type_result>>
inferVars == <<schema_input, schema_result, kind_input, kind_result>>
crudVars == <<crud_input, crud_result>>
swaggerVars == <<analysis, swagger_spec>>

----------------------------------------------------------------------------
(* Bounds of the model *)

\* longest caller-supplied endpoint list
MaxCustom == 2
\* most alternative test values of a parameter definition
MaxTestValues == 2
\* longest accepted_values list given to _infer_parameter_type
MaxAccepted == 3

----------------------------------------------------------------------------
(* Strings *)

Range(s) == {s[i] : i \in DOMAIN s}

BSeq(S, n) == UNION {[1..k -> S] : k \in 0..n}

NoDup(s) == \A i, j \in DOMAIN s : i # j => s[i] # s[j]

\* every ordering of a finite set: the orders list(set(x)) can produce
Orderings(S) == {s \in [1..Cardinality(S) -> S] : Range(s) = S}

UpperCase == <<"A","B","C","D","E","F","G","H","I","J","K","L","M",
               "N","O","P","Q","R","S","T","U","V","W","X","Y","Z">>
LowerCase == <<"a","b","c","d","e","f","g","h","i","j","k","l","m",
               "n","o","p","q","r","s","t","u","v","w","x","y","z">>
Digits == {"0","1","2","3","4","5","6","7","8","9"}
Whitespace == {" ", "\n", "\t"}
Quotes == {"\"", "'"}

\* str.lower() of one character
lowerChar(c) ==
    IF \E i \in DOMAIN UpperCase : UpperCase[i] = c
    THEN LowerCase[CHOOSE i \in DOMAIN UpperCase : UpperCase[i] = c]
    ELSE c

\* str.lower()
lower(s) == [i \in DOMAIN s |-> lowerChar(s[i])]

\* str.startswith(prefix)
startswith(s, prefix) ==
    /\ Len(prefix) <= Len(s)
    /\ SubSeq(s, 1, Len(prefix)) = prefix

RECURSIVE lstrip(_)
lstrip(s) == IF s # <<>> /\ Head(s) \in Whitespace THEN lstrip(Tail(s)) ELSE s

RECURSIVE rstrip(_)
rstrip(s) ==
    IF s # <<>> /\ s[Len(s)] \in Whitespace THEN rstrip(SubSeq(s, 1, Len(s) - 1)) ELSE s

\* str.strip()
strip(s) == rstrip(lstrip(s))

\* `sub in s` of two strings
Contains(s, sub) ==
    \E i \in 1..(Len(s) - Len(sub) + 1) : SubSeq(s, i, i + Len(sub) - 1) = sub

----------------------------------------------------------------------------
(* The fixed lists of the generator *)

\* self.endpoint_patterns, a sample kept in catalog order: '/users' is the first
\* pattern, and '/data' is in the catalog twice (generic patterns, analytics)
endpoint_patterns ==
    << <<"/","u","s","e","r","s">>, <<"/","d","a","t","a">>, <<"/","d","a","t","a">> >>

\* _discover_with_openapi: the first entries of openapi_urls
openapi_urls ==
    << <<"/","o","p","e","n","a","p","i",".","j","s","o","n">>,
       <<"/","s","w","a","g","g","e","r",".","j","s","o","n">> >>

\* _discover_from_documentation: the first entries of doc_urls
doc_urls ==
    << <<"/","d","o","c","s">>,
       <<"/","d","o","c","u","m","e","n","t","a","t","i","o","n">> >>

\* _is_valid_endpoint: valid_status_codes
valid_status_codes == <<200, 201, 202, 204, 401, 403, 405, 422, 429>>

\* test_methods with a destructive verb
TestMethodsWithDelete == <<"GET", "POST", "DELETE">>

\* _discover_methods: test_methods
test_methods == <<"GET", "POST">>

\* self.parameter_variations: every entry of the catalog is commented out
parameter_variations == <<>>

----------------------------------------------------------------------------
(* The target server: what a request can come back with *)

\* response.json() raised ValueError: the body is no JSON
NotJson == [kind |-> "invalid", has_paths |-> FALSE, paths_is_dict |-> FALSE, paths |-> <<>>]

\* a JSON object: whether it has the key 'paths', whether that value is an object,
\* and the keys of that object in document order
JsonObject(has, isdict, keys) ==
    [kind |-> "object", has_paths |-> has, paths_is_dict |-> isdict, paths |-> keys]

JsonBodies ==
    { NotJson,
      JsonObject(FALSE, FALSE, <<>>),
      JsonObject(TRUE, FALSE, <<>>),
      JsonObject(TRUE, TRUE, << <<"p","e","t","s">>, <<"/","u","s","e","r","s">> >>) }

HtmlBodies ==
    { <<>>,
      <<"G","E","T"," ","/","d","a","t","a">>,
      <<"G","e","t"," ","i","t">>,
      <<"\"","/","a","/","b","\"">> }

\* a request that raised (timeout, connection error): there is no response object
NetworkFailure == [raised |-> TRUE, status_code |-> 0, json |-> NotJson, text |-> <<>>]

Response(status, json, text) ==
    [raised |-> FALSE, status_code |-> status, json |-> json, text |-> text]

StatusCodes == {200, 201, 202, 204, 400, 401, 403, 404, 405, 422, 429, 500}

\* outcomes of a probe whose body the caller does not read
ProbeOutcomes == {NetworkFailure} \cup {Response(s, NotJson, <<>>) : s \in StatusCodes}

\* outcomes of a fetch of a machine-readable specification
SpecOutcomes ==
    {NetworkFailure, Response(404, NotJson, <<>>)}
        \cup {Response(200, j, <<>>) : j \in JsonBodies}

\* outcomes of a fetch of a documentation page
DocOutcomes ==
    {NetworkFailure, Response(404, NotJson, <<>>)}
        \cup {Response(200, NotJson, h) : h \in HtmlBodies}

----------------------------------------------------------------------------
(* Pure functions of discovery *)

\* _is_valid_endpoint taking 200 only
IsValidOnly200(r) == r.status_code = 200

\* _is_valid_endpoint with 405 missing from the list
IsValidWithout405(r) ==
    \/ r.status_code = 200
    \/ \E i \in DOMAIN valid_status_codes :
          valid_status_codes[i] # 405 /\ valid_status_codes[i] = r.status_code

\* _is_valid_endpoint(response)
_is_valid_endpoint(r) ==
    \/ r.status_code = 200
    \/ \E i \in DOMAIN valid_status_codes : valid_status_codes[i] = r.status_code

\* the custom-list loop's normalization of one supplied endpoint
NormalizeEndpoint(raw) ==
    LET endpoint == strip(raw)
    IN  IF ~startswith(endpoint, <<"/">>) THEN <<"/">> \o endpoint ELSE endpoint

\* _parse_openapi_spec(spec); the caller catches what it raises
ParseRaises(spec) == spec.has_paths /\ ~spec.paths_is_dict

_parse_openapi_spec(spec) ==
    IF spec.has_paths
    THEN SelectSeq(spec.paths, LAMBDA path : startswith(path, <<"/">>))
    ELSE <<>>

\* the last index e >= i - 1 with every character of text[i..e] in (or, with
\* inside = FALSE, not in) the set S: the extent of a greedy character class
RECURSIVE RunEnd(_, _, _, _)
RunEnd(text, i, S, inside) ==
    IF i <= Len(text) /\ ((text[i] \in S) <=> inside)
    THEN RunEnd(text, i + 1, S, inside)
    ELSE i - 1

Letters == Range(LowerCase) \cup Range(UpperCase)

\* where the head of a quoted-path pattern ends when it matches at text[i], else 0:
\* "api" is /api/ , "v" is /v\d+/ , "az" is /[a-z]+/ , all with re.IGNORECASE
HeadEnd(text, i, kind) ==
    IF kind = "api"
    THEN IF i + 4 <= Len(text) /\ lower(SubSeq(text, i, i + 4)) = <<"/","a","p","i","/">>
         THEN i + 4 ELSE 0
    ELSE IF i + 1 <= Len(text) /\ text[i] = "/" /\ (kind = "v" => lowerChar(text[i + 1]) = "v")
         THEN LET from == IF kind = "v" THEN i + 2 ELSE i + 1
                  d == RunEnd(text, from, IF kind = "v" THEN Digits ELSE Letters, TRUE)
              IN  IF d >= from /\ d + 1 <= Len(text) /\ text[d + 1] = "/" THEN d + 1 ELSE 0
         ELSE 0

\* re.findall of ["\'](HEAD[^"\']+)["\'] from position i on
RECURSIVE QuotedFind(_, _, _)
QuotedFind(text, i, kind) ==
    IF i > Len(text) THEN <<>>
    ELSE LET h == IF text[i] \in Quotes THEN HeadEnd(text, i + 1, kind) ELSE 0
             e == IF h > 0 THEN RunEnd(text, h + 1, Quotes, FALSE) ELSE 0
         IN  IF h > 0 /\ e >= h + 1 /\ e + 1 <= Len(text)
             THEN <<SubSeq(text, i + 1, e)>> \o QuotedFind(text, e + 2, kind)
             ELSE QuotedFind(text, i + 1, kind)

\* re.findall of VERB\s+([^\s]+) with re.IGNORECASE from position i on
RECURSIVE VerbFind(_, _, _)
VerbFind(text, i, verb) ==
    IF i > Len(text) THEN <<>>
    ELSE LET n == Len(verb)
             hit == i + n - 1 <= Len(text) /\ lower(SubSeq(text, i, i + n - 1)) = lower(verb)
             w == IF hit THEN RunEnd(text, i + n, Whitespace, TRUE) ELSE 0
             e == IF hit /\ w >= i + n THEN RunEnd(text, w + 1, Whitespace, FALSE) ELSE 0
         IN  IF hit /\ w >= i + n /\ e >= w + 1
             THEN <<SubSeq(text, w + 1, e)>> \o VerbFind(text, e + 1, verb)
             ELSE VerbFind(text, i + 1, verb)

\* _extract_endpoints_from_html: the matches of the seven patterns, before list(set())
HtmlMatches(html_content) ==
    QuotedFind(html_content, 1, "api") \o QuotedFind(html_content, 1, "v")
        \o QuotedFind(html_content, 1, "az")
        \o VerbFind(html_content, 1, <<"G","E","T">>)
        \o VerbFind(html_content, 1, <<"P","O","S","T">>)
        \o VerbFind(html_content, 1, <<"P","U","T">>)
        \o VerbFind(html_content, 1, <<"D","E","L","E","T","E">>)

\* _extract_endpoints_from_html(html_content): list(set(endpoints)) may come in any order
_extract_endpoints_from_html(html_content) == Orderings(Range(HtmlMatches(html_content)))

----------------------------------------------------------------------------
(* Inputs *)

\* endpoints a caller may supply: with and without the leading '/', padded with blanks
RawEndpoints ==
    { <<"u","s","e","r","s">>, <<"/","u","s","e","r","s">>, <<" ","/","d","a","t","a"," ">> }

\* custom_endpoints: None, or a list (the CLI and the HTTP service pass either)
CustomInputs ==
    {[is_none |-> TRUE, items |-> <<>>]}
        \cup {[is_none |-> FALSE, items |-> l] : l \in BSeq(RawEndpoints, MaxCustom)}

NoRequest == [method |-> "", path |-> <<>>, source |-> ""]

Request(method, path, source) == [method |-> method, path |-> path, source |-> source]

----------------------------------------------------------------------------
(* JSON values as response.json() returns them *)

\* longest JSON list, and most fields of a JSON object, of a response body
MaxItems == 2

\* a Python value: kind is type(value).__name__, lit the literal of a scalar,
\* elems the elements of a list or the field values of a dict, keys the field
\* names of a dict in document order
JValue(kind, lit, keys, elems) == [kind |-> kind, lit |-> lit, keys |-> keys, elems |-> elems]

JNone == JValue("NoneType", <<"n","u","l","l">>, <<>>, <<>>)
JTrue == JValue("bool", <<"t","r","u","e">>, <<>>, <<>>)
JInt == JValue("int", <<"1">>, <<>>, <<>>)
JFloat == JValue("float", <<"1",".","5">>, <<>>, <<>>)
JStr(s) == JValue("str", s, <<>>, <<>>)
JList(elems) == JValue("list", <<>>, <<>>, elems)
JDict(keys, elems) == JValue("dict", <<>>, keys, elems)

\* field names of the sample objects, in document order
FieldNames == <<"id", "tags", "owner", "name">>

Leaves == {JNone, JTrue, JInt, JFloat, JStr(<<"h","i">>)}

Nested == {JList(<<>>), JList(<<JInt>>), JDict(<<>>, <<>>), JDict(<<"id">>, <<JInt>>)}

\* what a list element or a field value can be
Elements == Leaves \cup Nested

\* the bodies response.json() can return
JsonDocuments ==
    Leaves
        \cup {JList(l) : l \in BSeq(Elements, MaxItems)}
        \cup {JDict(SubSeq(FieldNames, 1, Len(l)), l) : l \in BSeq(Elements, MaxItems)}

\* a 200 response: json() returns data, or raises and the body is only text
BodyResponse(parses, data, text) ==
    [status_code |-> 200, parses |-> parses, data |-> data, text |-> text]

SchemaResponses ==
    {BodyResponse(TRUE, d, <<>>) : d \in JsonDocuments}
        \cup {BodyResponse(FALSE, JNone, t) : t \in {<<>>, <<"<","h","t","m","l",">">>}}

\* obj[key] of a dict
FieldValue(obj, key) == obj.elems[CHOOSE i \in DOMAIN obj.keys : obj.keys[i] = key]

\* _safe_json handing back nothing when json() raises
SafeJsonNone(resp) == IF resp.parses THEN resp.data ELSE JNone

\* _safe_json: response.json(), and response.text when that raises
_safe_json(resp) == IF resp.parses THEN resp.data ELSE JStr(resp.text)

IdleInfer ==
    /\ schema_input = BodyResponse(FALSE, JNone, <<>>)
    /\ schema_result = [type |-> ""]
    /\ kind_input = JNone
    /\ kind_result = ""

IdleCrud ==
    /\ crud_input = <<>>
    /\ crud_result = [create |-> FALSE, read |-> FALSE, update |-> FALSE, delete |-> FALSE]

IdleSwagger ==
    /\ analysis = [loaded |-> FALSE, endpoints |-> <<>>]
    /\ swagger_spec = [is_empty |-> TRUE, paths |-> <<>>]

IdleDiscovery ==
    /\ mode = ""
    /\ idx = 0
    /\ discovered_endpoints = <<>>
    /\ doc_discovered = <<>>
    /\ sent = <<>>
    /\ all_raised = TRUE
    /\ endpoints = <<>>

IdleAnalysis ==
    /\ ep_idx = 0
    /\ m_idx = 0
    /\ methods = <<>>
    /\ method_status = <<>>
    /\ endpoint_analyses = [e \in {} |-> <<>>]
    /\ result = [status |-> "", message |-> ""]

IdleSweep ==
    /\ param_name = <<>>
    /\ validation_patterns = <<>>
    /\ param_info = [default |-> <<>>, test_values |-> <<>>, error_value |-> <<>>]
    /\ sweep_method = ""
    /\ sweep_idx = 0
    /\ accepted_values = <<>>
    /\ rejected_values = <<>>
    /\ required = FALSE
    /\ param_type = "string"
    /\ sweep_log = <<>>

IdleType ==
    /\ type_input = <<>>
    /\ type_result = ""

----------------------------------------------------------------------------
(* discover_endpoints *)

\* discover_endpoints returns: its locals, and the record of its requests, are gone
LocalsDropped ==
    /\ idx' = 0
    /\ discovered_endpoints' = <<>>
    /\ doc_discovered' = <<>>
    /\ sent' = <<>>
    /\ all_raised' = TRUE

\* `if self.custom_endpoints:` is false for None and for the empty list
CustomMode == ~custom_endpoints.is_none /\ custom_endpoints.items # <<>>

\* discover_endpoints is entered: the mode is chosen
DiscoverStart ==
    /\ pc = "discover_endpoints"
    /\ pc' = IF CustomMode THEN "custom_loop" ELSE "pattern_loop"
    /\ mode' = IF CustomMode THEN "explicit-list" ELSE "pattern-catalog"
    /\ idx' = 1
    /\ discovered_endpoints' = <<>>
    /\ UNCHANGED <<custom_endpoints, doc_discovered, sent, all_raised, endpoints, request,
                   response, slept>>
    /\ UNCHANGED <<analysisVars, sweepVars, typeVars, inferVars, crudVars, swaggerVars>>

\* AfterProbe inserting at the front instead of appending
AfterProbeInsertFirst(found, endpoint, outcome) ==
    IF ~outcome.raised /\ _is_valid_endpoint(outcome) THEN <<endpoint>> \o found ELSE found

\* AfterProbe taking a request that raised for a hit
AfterProbeCountingFailures(found, endpoint, outcome) ==
    IF outcome.raised \/ _is_valid_endpoint(outcome) THEN Append(found, endpoint) ELSE found

\* what one probe of the custom or pattern loop leaves in discovered_endpoints
AfterProbe(found, endpoint, outcome) ==
    IF ~outcome.raised /\ _is_valid_endpoint(outcome) THEN Append(found, endpoint) ELSE found

\* one iteration of `for endpoint in self.custom_endpoints`
ProbeCustom ==
    /\ pc = "custom_loop"
    /\ idx <= Len(custom_endpoints.items)
    /\ \E outcome \in ProbeOutcomes :
          LET endpoint == NormalizeEndpoint(custom_endpoints.items[idx])
          IN  /\ request' = Request("GET", endpoint, "explicit-list")
              /\ response' = outcome
              /\ slept' = ~outcome.raised
              /\ discovered_endpoints' = AfterProbe(discovered_endpoints, endpoint, outcome)
    /\ sent' = Append(sent, request')
    /\ all_raised' = (all_raised /\ response'.raised)
    /\ idx' = idx + 1
    /\ UNCHANGED <<custom_endpoints, mode, pc, doc_discovered, endpoints>>
    /\ UNCHANGED <<analysisVars, sweepVars, typeVars, inferVars, crudVars, swaggerVars>>

\* the custom loop is over: `return discovered_endpoints`
ReturnCustom ==
    /\ pc = "custom_loop"
    /\ idx > Len(custom_endpoints.items)
    /\ endpoints' = discovered_endpoints
    /\ pc' = "discovered"
    /\ LocalsDropped
    /\ UNCHANGED <<custom_endpoints, mode, request, response, slept>>
    /\ UNCHANGED <<analysisVars, sweepVars, typeVars, inferVars, crudVars, swaggerVars>>

\* one iteration of `for pattern in self.endpoint_patterns`
ProbePattern ==
    /\ pc = "pattern_loop"
    /\ idx <= Len(endpoint_patterns)
    /\ \E outcome \in ProbeOutcomes :
          LET pattern == endpoint_patterns[idx]
          IN  /\ request' = Request("GET", pattern, "pattern-catalog")
              /\ response' = outcome
              /\ slept' = ~outcome.raised
              /\ discovered_endpoints' = AfterProbe(discovered_endpoints, pattern, outcome)
    /\ sent' = Append(sent, request')
    /\ all_raised' = (all_raised /\ response'.raised)
    /\ idx' = idx + 1
    /\ UNCHANGED <<custom_endpoints, mode, pc, doc_discovered, endpoints>>
    /\ UNCHANGED <<analysisVars, sweepVars, typeVars, inferVars, crudVars, swaggerVars>>

\* the pattern loop is over: _discover_with_openapi is called
PatternsDone ==
    /\ pc = "pattern_loop"
    /\ idx > Len(endpoint_patterns)
    /\ pc' = "openapi_loop"
    /\ idx' = 1
    /\ UNCHANGED <<custom_endpoints, mode, discovered_endpoints, doc_discovered, sent,
                   all_raised, endpoints, request, response, slept>>
    /\ UNCHANGED <<analysisVars, sweepVars, typeVars, inferVars, crudVars, swaggerVars>>

\* whether _discover_with_openapi returns on this outcome (else it tries the next URL)
OpenapiReturns(outcome) ==
    /\ ~outcome.raised
    /\ outcome.status_code = 200
    /\ outcome.json.kind # "invalid"
    /\ ~ParseRaises(outcome.json)

\* one iteration of `for openapi_path in openapi_urls`; on a parsed specification the
\* function returns and its list extends discovered_endpoints
ProbeOpenapi ==
    /\ pc = "openapi_loop"
    /\ idx <= Len(openapi_urls)
    /\ \E outcome \in SpecOutcomes :
          /\ request' = Request("GET", openapi_urls[idx], "spec-document")
          /\ response' = outcome
          /\ slept' = FALSE
          /\ IF OpenapiReturns(outcome)
             THEN /\ discovered_endpoints' =
                        discovered_endpoints \o _parse_openapi_spec(outcome.json)
                  /\ pc' = "doc_loop"
                  /\ idx' = 1
             ELSE /\ discovered_endpoints' = discovered_endpoints
                  /\ pc' = pc
                  /\ idx' = idx + 1
    /\ sent' = Append(sent, request')
    /\ all_raised' = (all_raised /\ response'.raised)
    /\ UNCHANGED <<custom_endpoints, mode, doc_discovered, endpoints>>
    /\ UNCHANGED <<analysisVars, sweepVars, typeVars, inferVars, crudVars, swaggerVars>>

\* no URL served a specification: `return []`
OpenapiDone ==
    /\ pc = "openapi_loop"
    /\ idx > Len(openapi_urls)
    /\ pc' = "doc_loop"
    /\ idx' = 1
    /\ UNCHANGED <<custom_endpoints, mode, discovered_endpoints, doc_discovered, sent,
                   all_raised, endpoints, request, response, slept>>
    /\ UNCHANGED <<analysisVars, sweepVars, typeVars, inferVars, crudVars, swaggerVars>>

\* ProbeDoc asking again for a page whose request raised
ProbeDocRetrying ==
    /\ pc = "doc_loop"
    /\ idx <= Len(doc_urls)
    /\ \E outcome \in DocOutcomes :
          /\ request' = Request("GET", doc_urls[idx], "documentation")
          /\ response' = outcome
          /\ slept' = FALSE
          /\ IF ~outcome.raised /\ outcome.status_code = 200
             THEN \E found \in _extract_endpoints_from_html(outcome.text) :
                      doc_discovered' = doc_discovered \o found
             ELSE doc_discovered' = doc_discovered
    /\ sent' = Append(sent, request')
    /\ all_raised' = (all_raised /\ response'.raised)
    /\ idx' = IF response'.raised THEN idx ELSE idx + 1
    /\ UNCHANGED <<custom_endpoints, mode, pc, discovered_endpoints, endpoints>>
    /\ UNCHANGED <<analysisVars, sweepVars, typeVars, inferVars, crudVars, swaggerVars>>

\* one iteration of `for doc_url in doc_urls`
ProbeDoc ==
    /\ pc = "doc_loop"
    /\ idx <= Len(doc_urls)
    /\ \E outcome \in DocOutcomes :
          /\ request' = Request("GET", doc_urls[idx], "documentation")
          /\ response' = outcome
          /\ slept' = FALSE
          /\ IF ~outcome.raised /\ outcome.status_code = 200
             THEN \E found \in _extract_endpoints_from_html(outcome.text) :
                      doc_discovered' = doc_discovered \o found
             ELSE doc_discovered' = doc_discovered
    /\ sent' = Append(sent, request')
    /\ all_raised' = (all_raised /\ response'.raised)
    /\ idx' = idx + 1
    /\ UNCHANGED <<custom_endpoints, mode, pc, discovered_endpoints, endpoints>>
    /\ UNCHANGED <<analysisVars, sweepVars, typeVars, inferVars, crudVars, swaggerVars>>

\* what the catalog branch returns from its list: list(set(...)), in any order
CatalogResult(found) == Orderings(Range(found))

\* the documentation loop is over: its list extends discovered_endpoints and
\* discover_endpoints returns
ReturnCatalog ==
    /\ pc = "doc_loop"
    /\ idx > Len(doc_urls)
    /\ endpoints' \in CatalogResult(discovered_endpoints \o doc_discovered)
    /\ pc' = "discovered"
    /\ LocalsDropped
    /\ UNCHANGED <<custom_endpoints, mode, request, response, slept>>
    /\ UNCHANGED <<analysisVars, sweepVars, typeVars, inferVars, crudVars, swaggerVars>>

----------------------------------------------------------------------------
(* generate_analysis, analyze_endpoint, _discover_methods, _analyze_method_comprehensive *)

\* generate_analysis: `if not endpoints` returns the error document
NoEndpoints ==
    /\ pc = "discovered"
    /\ endpoints = <<>>
    /\ result' = [status |-> "error", message |-> "No endpoints discovered"]
    /\ pc' = "done"
    /\ UNCHANGED <<ep_idx, m_idx, methods, method_status, endpoint_analyses, request, response, slept>>
    /\ UNCHANGED <<discoveryVars, sweepVars, typeVars, inferVars, crudVars, swaggerVars>>

\* generate_analysis: the loop over the endpoints begins with the first _discover_methods
StartAnalysis ==
    /\ pc = "discovered"
    /\ endpoints # <<>>
    /\ ep_idx' = 1
    /\ m_idx' = 1
    /\ methods' = <<>>
    /\ method_status' = <<>>
    /\ pc' = "discover_methods"
    /\ UNCHANGED <<endpoint_analyses, result, request, response, slept>>
    /\ UNCHANGED <<discoveryVars, sweepVars, typeVars, inferVars, crudVars, swaggerVars>>

\* _discover_methods: one iteration of `for method in test_methods`
ProbeMethod ==
    /\ pc = "discover_methods"
    /\ m_idx <= Len(test_methods)
    /\ \E outcome \in ProbeOutcomes :
          /\ request' = Request(test_methods[m_idx], endpoints[ep_idx], "method-probe")
          /\ response' = outcome
          /\ slept' = ~outcome.raised
          /\ methods' = AfterProbe(methods, test_methods[m_idx], outcome)
          /\ method_status' = Append(method_status, outcome)
    /\ m_idx' = m_idx + 1
    /\ UNCHANGED <<pc, ep_idx, endpoint_analyses, result>>
    /\ UNCHANGED <<discoveryVars, sweepVars, typeVars, inferVars, crudVars, swaggerVars>>

\* MethodsFallback without the fallback
MethodsWithoutFallback(found) == found

\* _discover_methods: the fallback applied to the list the loop built
MethodsFallback(found) == IF found = <<>> THEN <<"GET">> ELSE found

\* _discover_methods returns; analyze_endpoint goes on to its loop over the methods
ReturnMethods ==
    /\ pc = "discover_methods"
    /\ m_idx > Len(test_methods)
    /\ methods' = MethodsFallback(methods)
    /\ m_idx' = 1
    /\ pc' = "analyze_method"
    /\ UNCHANGED <<ep_idx, method_status, endpoint_analyses, result, request, response, slept>>
    /\ UNCHANGED <<discoveryVars, sweepVars, typeVars, inferVars, crudVars, swaggerVars>>

\* _analyze_method_comprehensive: the request without parameters, in the given method;
\* the loop over self.parameter_variations that follows has nothing to iterate over
NoParamsRequest ==
    /\ pc = "analyze_method"
    /\ m_idx <= Len(methods)
    /\ parameter_variations = <<>>
    /\ \E outcome \in ProbeOutcomes :
          /\ request' = Request(methods[m_idx], endpoints[ep_idx], "no-params")
          /\ response' = outcome
          /\ slept' = ~outcome.raised
    /\ method_status' = <<>>
    /\ IF methods[m_idx] = "GET"
       THEN pc' = "schema_fetch" /\ m_idx' = m_idx
       ELSE pc' = pc /\ m_idx' = m_idx + 1
    /\ UNCHANGED <<ep_idx, methods, endpoint_analyses, result>>
    /\ UNCHANGED <<discoveryVars, sweepVars, typeVars, inferVars, crudVars, swaggerVars>>

\* SchemaFetch going back to the same method instead of on to the next
SchemaFetchRepeating ==
    /\ pc = "schema_fetch"
    /\ \E outcome \in ProbeOutcomes :
          /\ request' = Request("GET", endpoints[ep_idx], "schema-fetch")
          /\ response' = outcome
          /\ slept' = FALSE
    /\ m_idx' = IF response'.raised THEN m_idx ELSE m_idx + 1
    /\ pc' = "analyze_method"
    /\ UNCHANGED <<ep_idx, methods, method_status, endpoint_analyses, result>>
    /\ UNCHANGED <<discoveryVars, sweepVars, typeVars, inferVars, crudVars, swaggerVars>>

\* _analyze_method_comprehensive: `if method == 'GET'`, the GET whose body is analyzed
SchemaFetch ==
    /\ pc = "schema_fetch"
    /\ \E outcome \in ProbeOutcomes :
          /\ request' = Request("GET", endpoints[ep_idx], "schema-fetch")
          /\ response' = outcome
          /\ slept' = FALSE
    /\ m_idx' = m_idx + 1
    /\ pc' = "analyze_method"
    /\ UNCHANGED <<ep_idx, methods, method_status, endpoint_analyses, result>>
    /\ UNCHANGED <<discoveryVars, sweepVars, typeVars, inferVars, crudVars, swaggerVars>>

\* f"{rate:.1f}%" of rate = (found / cataloged) * 100, as a number of tenths of a
\* percent: the nearest one (a catalog of 3 or of 87 patterns gives no tie)
FormatRate(found, cataloged) == (2000 * found + cataloged) \div (2 * cataloged)

\* _generate_comprehensive_summary: the counts, and the discovery rate, computed
\* from len(self.endpoint_patterns) whatever the mode of the run
_generate_comprehensive_summary(found, analyses) ==
    [total_endpoints |-> Len(found),
     successful_analyses |->
        Cardinality({e \in DOMAIN analyses : analyses[e].status = "success"}),
     discovery_rate |->
        IF Len(endpoint_patterns) > 0
        THEN FormatRate(Len(found), Len(endpoint_patterns))
        ELSE 0]

\* generate_analysis: analysis_result['metadata']
Metadata ==
    [custom_endpoints |-> ~custom_endpoints.is_none,
     total_patterns_tested |-> IF CustomMode THEN 0 ELSE Len(endpoint_patterns)]

\* analyze_endpoint returns and generate_analysis stores the analysis under the
\* endpoint; then the next endpoint, or the document is returned
EndpointDone ==
    /\ pc = "analyze_method"
    /\ m_idx > Len(methods)
    /\ endpoint_analyses' =
          [e \in DOMAIN endpoint_analyses \cup {endpoints[ep_idx]} |->
              IF e = endpoints[ep_idx]
              THEN [methods |-> methods, status |-> "success"]
              ELSE endpoint_analyses[e]]
    /\ IF ep_idx < Len(endpoints)
       THEN /\ ep_idx' = ep_idx + 1
            /\ m_idx' = 1
            /\ methods' = <<>>
            /\ pc' = "discover_methods"
            /\ result' = result
       ELSE /\ ep_idx' = ep_idx
            /\ m_idx' = m_idx
            /\ methods' = methods
            /\ pc' = "done"
            /\ result' = [status |-> "analyzed", message |-> "",
                          metadata |-> Metadata,
                          summary |-> _generate_comprehensive_summary(endpoints,
                                                                      endpoint_analyses')]
    /\ UNCHANGED <<method_status, request, response, slept>>
    /\ UNCHANGED <<discoveryVars, sweepVars, typeVars, inferVars, crudVars, swaggerVars>>

----------------------------------------------------------------------------
(* _infer_parameter_type *)

\* str.isdigit(): false for the empty string
isdigit(s) == s # <<>> /\ \A i \in DOMAIN s : s[i] \in Digits

\* value.lower() in ['true', 'false']
IsBooleanWord(s) == lower(s) \in { <<"t","r","u","e">>, <<"f","a","l","s","e">> }

\* re.match(r'^\d{4}-\d{2}-\d{2}$', value)
MatchesDatePattern(s) ==
    /\ Len(s) = 10
    /\ \A i \in {1, 2, 3, 4, 6, 7, 9, 10} : s[i] \in Digits
    /\ s[5] = "-"
    /\ s[8] = "-"

\* all(...) of the tests of the values, taken in list order
RECURSIVE all(_)
all(tests) == tests = <<>> \/ (Head(tests) /\ all(Tail(tests)))

AllDigits(values) == all([i \in DOMAIN values |-> isdigit(values[i])])
AllBooleanWords(values) == all([i \in DOMAIN values |-> IsBooleanWord(values[i])])
AllDates(values) == all([i \in DOMAIN values |-> MatchesDatePattern(values[i])])

\* _infer_parameter_type without the test for the empty list
InferTypeWithoutEmptyTest(values) ==
    IF AllDigits(values) THEN "integer"
    ELSE IF AllBooleanWords(values) THEN "boolean"
    ELSE IF AllDates(values) THEN "date"
    ELSE "string"

\* _infer_parameter_type(accepted_values)
_infer_parameter_type(values) ==
    IF values = <<>> THEN "string"
    ELSE IF AllDigits(values) THEN "integer"
    ELSE IF AllBooleanWords(values) THEN "boolean"
    ELSE IF AllDates(values) THEN "date"
    ELSE "string"

\* values given to _infer_parameter_type
TypeSamples ==
    { <<"1">>, <<"1","0">>, <<>>, <<"t","r","u","e">>, <<"F","A","L","S","E">>,
      <<"2","0","2","4","-","0","1","-","0","1">>, <<"2","0","2","4","-","1","-","1">>,
      <<"a","b","c">> }

\* the call _infer_parameter_type(type_input)
InferType ==
    /\ pc = "infer_type"
    /\ type_result' = _infer_parameter_type(type_input)
    /\ pc' = "type_done"
    /\ UNCHANGED <<type_input, request, response, slept>>
    /\ UNCHANGED <<discoveryVars, analysisVars, sweepVars, inferVars, crudVars, swaggerVars>>

TypeInit ==
    /\ type_input \in BSeq(TypeSamples, MaxAccepted)
    /\ type_result = ""
    /\ pc = "infer_type"
    /\ custom_endpoints = [is_none |-> TRUE, items |-> <<>>]
    /\ request = NoRequest
    /\ response = NetworkFailure
    /\ slept = FALSE
    /\ IdleDiscovery
    /\ IdleAnalysis
    /\ IdleSweep
    /\ IdleInfer
    /\ IdleCrud
    /\ IdleSwagger

TypeNext == InferType

TypeSpec == TypeInit /\ [][TypeNext]_vars

----------------------------------------------------------------------------
(* _analyze_parameter_comprehensive *)

\* parameter values of a definition
SweepValues == { <<"1">>, <<"a","b","c">> }

\* param_info: the default, the alternative test values, the designated invalid value
ParamInfos ==
    [default : SweepValues, test_values : BSeq(SweepValues, MaxTestValues),
     error_value : SweepValues]

SweepStatusCodes == {200, 400, 401, 403, 404}

SweepOutcomes == {NetworkFailure} \cup {Response(s, NotJson, <<>>) : s \in SweepStatusCodes}

\* BucketAccepted accepting 200 only
BucketAcceptedOnly200(accepted, value, outcome) ==
    IF ~outcome.raised /\ outcome.status_code = 200
    THEN Append(accepted, value) ELSE accepted

\* the default and each test value: `in [200, 401, 403]` accepts, `== 400` rejects
BucketAccepted(accepted, value, outcome) ==
    IF ~outcome.raised /\ outcome.status_code \in {200, 401, 403}
    THEN Append(accepted, value) ELSE accepted

\* BucketRejected testing for 404 instead of 400
BucketRejectedOn404(rejected, value, outcome) ==
    IF ~outcome.raised /\ outcome.status_code = 404
    THEN Append(rejected, value) ELSE rejected

BucketRejected(rejected, value, outcome) ==
    IF ~outcome.raised /\ outcome.status_code \notin {200, 401, 403}
                       /\ outcome.status_code = 400
    THEN Append(rejected, value) ELSE rejected

\* the error value: only `== 400` is looked at
BucketErrorValue(rejected, value, outcome) ==
    IF ~outcome.raised /\ outcome.status_code = 400
    THEN Append(rejected, value) ELSE rejected

\* Requiredness without the test that nothing was accepted
RequirednessIgnoringAccepted(accepted, rejected) == rejected # <<>>

\* "Determine if parameter is required"; validation_info['required'] starts False
Requiredness(accepted, rejected) ==
    IF accepted # <<>> /\ rejected = <<>> THEN FALSE
    ELSE IF rejected # <<>> /\ accepted = <<>> THEN TRUE
    ELSE FALSE

Probe(kind, value, outcome) == [kind |-> kind, value |-> value, outcome |-> outcome]

\* "Test default value"
ProbeDefault ==
    /\ pc = "sweep_default"
    /\ \E outcome \in SweepOutcomes :
          /\ request' = Request(sweep_method, param_info.default, "parameter-probe")
          /\ response' = outcome
          /\ slept' = ~outcome.raised
          /\ accepted_values' = BucketAccepted(accepted_values, param_info.default, outcome)
          /\ rejected_values' = BucketRejected(rejected_values, param_info.default, outcome)
          /\ sweep_log' = Append(sweep_log, Probe("default", param_info.default, outcome))
    /\ sweep_idx' = 1
    /\ pc' = "sweep_values"
    /\ UNCHANGED <<param_name, param_info, sweep_method, validation_patterns, required,
                   param_type>>
    /\ UNCHANGED <<discoveryVars, analysisVars, typeVars, inferVars, crudVars, swaggerVars>>

\* ProbeTestValue with `break` in place of `continue`: an exception ends the sweep
ProbeTestValueAborting ==
    /\ pc = "sweep_values"
    /\ sweep_idx <= Len(param_info.test_values)
    /\ \E outcome \in SweepOutcomes :
          LET test_value == param_info.test_values[sweep_idx]
          IN  /\ request' = Request(sweep_method, test_value, "parameter-probe")
              /\ response' = outcome
              /\ slept' = ~outcome.raised
              /\ accepted_values' = BucketAccepted(accepted_values, test_value, outcome)
              /\ rejected_values' = BucketRejected(rejected_values, test_value, outcome)
              /\ sweep_log' = Append(sweep_log, Probe("test", test_value, outcome))
              /\ pc' = IF outcome.raised THEN "sweep_done" ELSE pc
    /\ sweep_idx' = sweep_idx + 1
    /\ UNCHANGED <<param_name, param_info, sweep_method, validation_patterns, required,
                   param_type>>
    /\ UNCHANGED <<discoveryVars, analysisVars, typeVars, inferVars, crudVars, swaggerVars>>

\* "Test multiple values": one iteration of `for test_value in param_info['test_values']`
ProbeTestValue ==
    /\ pc = "sweep_values"
    /\ sweep_idx <= Len(param_info.test_values)
    /\ \E outcome \in SweepOutcomes :
          LET test_value == param_info.test_values[sweep_idx]
          IN  /\ request' = Request(sweep_method, test_value, "parameter-probe")
              /\ response' = outcome
              /\ slept' = ~outcome.raised
              /\ accepted_values' = BucketAccepted(accepted_values, test_value, outcome)
              /\ rejected_values' = BucketRejected(rejected_values, test_value, outcome)
              /\ sweep_log' = Append(sweep_log, Probe("test", test_value, outcome))
    /\ sweep_idx' = sweep_idx + 1
    /\ UNCHANGED <<pc, param_name, param_info, sweep_method, validation_patterns, required,
                   param_type>>
    /\ UNCHANGED <<discoveryVars, analysisVars, typeVars, inferVars, crudVars, swaggerVars>>

\* name of the parameter swept
ParamNamesTested == { <<"L","i","m","i","t">> }

\* messages of an error body
BadRequest == <<"b","a","d">>
LimitZero == <<"L","I","M","I","T"," ","0">>
NoLimit == <<"n","o"," ","l","i","m","i","t">>

\* bodies of a 400 response that response.json() parses
ErrorBodies ==
    { JDict(<<"error", "msg">>, <<JStr(BadRequest), JStr(LimitZero)>>),
      JDict(<<"error", "message">>, <<JStr(BadRequest), JStr(NoLimit)>>),
      JDict(<<"message", "error">>, <<JStr(LimitZero), JStr(NoLimit)>>),
      JDict(<<"error", "description", "detail">>, <<JNone, JStr(LimitZero), JStr(NoLimit)>>),
      JList(<<JStr(LimitZero)>>) }

\* statuses of the probe of the error value: the branch tests `== 400` only
ErrorStatusCodes == {200, 400}

\* outcomes of the probe of the error value: an exception, a response without a
\* JSON body, a 400 with a JSON body, and a 400 whose body is text only
ErrorOutcomes ==
    {NetworkFailure}
        \cup {Response(s, NotJson, <<>>) : s \in ErrorStatusCodes}
        \cup {Response(400, b, <<>>) : b \in ErrorBodies}
        \cup {Response(400, NotJson, LimitZero)}

\* str(value) of a scalar JSON value
str(value) ==
    IF value.kind = "NoneType" THEN <<"N","o","n","e">>
    ELSE IF value.kind = "bool"
         THEN IF value.lit = <<"t","r","u","e">> THEN <<"T","r","u","e">>
              ELSE <<"F","a","l","s","e">>
         ELSE value.lit

\* what _safe_json reads of a response that came back
AsBody(outcome) ==
    [parses |-> outcome.json.kind # "invalid", data |-> outcome.json, text |-> outcome.text]

error_fields == <<"error", "message", "detail", "description">>

NoneValue == [is_none |-> TRUE, value |-> <<>>]

RECURSIVE ExtractFrom(_, _, _)
\* the loop `for field in error_fields` from the i-th field on
ExtractFrom(error_data, name, i) ==
    IF i > Len(error_fields) THEN NoneValue
    ELSE IF /\ error_fields[i] \in Range(error_data.keys)
            /\ Contains(lower(str(FieldValue(error_data, error_fields[i]))), lower(name))
         THEN [is_none |-> FALSE, value |-> str(FieldValue(error_data, error_fields[i]))]
         ELSE ExtractFrom(error_data, name, i + 1)

\* _extract_validation_error returning the first field present, mentioned or not
ExtractFirstPresent(outcome, name) ==
    LET error_data == _safe_json(AsBody(outcome))
        present == {i \in DOMAIN error_fields : error_fields[i] \in Range(error_data.keys)}
    IN  IF error_data.kind = "dict" /\ present # {}
        THEN [is_none |-> FALSE,
              value |-> str(FieldValue(error_data,
                            error_fields[CHOOSE i \in present : \A j \in present : i <= j]))]
        ELSE NoneValue

\* _extract_validation_error(response, param_name)
_extract_validation_error(outcome, name) ==
    LET error_data == _safe_json(AsBody(outcome))
    IN  IF error_data.kind = "dict" THEN ExtractFrom(error_data, name, 1) ELSE NoneValue

\* the error value probe: on a 400, `if error_info:` appends the message
RecordPattern(patterns, outcome, name) ==
    IF ~outcome.raised /\ outcome.status_code = 400
    THEN LET error_info == _extract_validation_error(outcome, name)
         IN  IF ~error_info.is_none /\ error_info.value # <<>>
             THEN Append(patterns, error_info.value)
             ELSE patterns
    ELSE patterns

\* "Test error value", then requiredness and the type, and the function returns
ProbeErrorValue ==
    /\ pc = "sweep_values"
    /\ sweep_idx > Len(param_info.test_values)
    /\ \E outcome \in ErrorOutcomes :
          /\ request' = Request(sweep_method, param_info.error_value, "parameter-probe")
          /\ response' = outcome
          /\ slept' = ~outcome.raised
          /\ rejected_values' = BucketErrorValue(rejected_values, param_info.error_value, outcome)
          /\ validation_patterns' = RecordPattern(validation_patterns, outcome, param_name)
          /\ sweep_log' = Append(sweep_log, Probe("error", param_info.error_value, outcome))
    /\ accepted_values' = accepted_values
    /\ required' = Requiredness(accepted_values', rejected_values')
    /\ param_type' = _infer_parameter_type(accepted_values')
    /\ pc' = "sweep_done"
    /\ UNCHANGED <<param_name, param_info, sweep_method, sweep_idx>>
    /\ UNCHANGED <<discoveryVars, analysisVars, typeVars, inferVars, crudVars, swaggerVars>>

\* validation_info as the function returns it
validation_info ==
    [accepted_values |-> accepted_values, rejected_values |-> rejected_values,
     validation_patterns |-> validation_patterns, required |-> required,
     type |-> param_type]

\* parameter_info reporting every parameter as accepted
ParameterInfoAlwaysAccepted(info, default) ==
    [type |-> info.type, required |-> info.required, default |-> default,
     accepted |-> TRUE]

\* the 'parameter_info' of the value returned
parameter_info(info, default) ==
    [type |-> info.type, required |-> info.required, default |-> default,
     accepted |-> Len(info.accepted_values) > 0]

SweepInit ==
    /\ param_name \in ParamNamesTested
    /\ param_info \in ParamInfos
    /\ validation_patterns = <<>>
    /\ sweep_method \in Range(test_methods)
    /\ sweep_idx = 0
    /\ accepted_values = <<>>
    /\ rejected_values = <<>>
    /\ required = FALSE
    /\ param_type = "string"
    /\ sweep_log = <<>>
    /\ pc = "sweep_default"
    /\ custom_endpoints = [is_none |-> TRUE, items |-> <<>>]
    /\ request = NoRequest
    /\ response = NetworkFailure
    /\ slept = FALSE
    /\ IdleDiscovery
    /\ IdleAnalysis
    /\ IdleType
    /\ IdleInfer
    /\ IdleCrud
    /\ IdleSwagger

SweepNext ==
    \/ ProbeDefault
    \/ ProbeTestValue
    \/ ProbeErrorValue

SweepSpec == SweepInit /\ [][SweepNext]_vars

----------------------------------------------------------------------------
(* Response schema inference *)

\* most parts a sample string is concatenated from
MaxParts == 2

HexLower == Digits \cup {"a","b","c","d","e","f"}

\* re.match(r'^\d{4}-\d{2}-\d{2}', value): a prefix, nothing anchors the end
MatchesDatePrefix(s) ==
    /\ Len(s) >= 10
    /\ \A i \in {1, 2, 3, 4, 6, 7, 9, 10} : s[i] \in Digits
    /\ s[5] = "-"
    /\ s[8] = "-"

\* re.match(r'^[a-f0-9]{8}-[a-f0-9]{4}-[a-f0-9]{4}-[a-f0-9]{4}-[a-f0-9]{12}$', value);
\* `$` matches at the end and before a newline that ends the string
MatchesUuid(s) ==
    LET body == IF Len(s) = 37 /\ s[37] = "\n" THEN SubSeq(s, 1, 36) ELSE s
    IN  /\ Len(body) = 36
        /\ \A i \in {9, 14, 19, 24} : body[i] = "-"
        /\ \A i \in (1..36) \ {9, 14, 19, 24} : body[i] \in HexLower

\* _infer_type_comprehensive with the url test ahead of the email test
InferKindUrlFirst(value) ==
    CASE value.kind = "bool" -> "boolean"
      [] value.kind = "int" -> "integer"
      [] value.kind = "float" -> "number"
      [] value.kind = "str" ->
            IF MatchesDatePrefix(value.lit) THEN "date"
            ELSE IF MatchesUuid(value.lit) THEN "uuid"
            ELSE IF startswith(value.lit, <<"h","t","t","p">>) THEN "url"
            ELSE IF "@" \in Range(value.lit) /\ "." \in Range(value.lit) THEN "email"
            ELSE "string"
      [] value.kind = "list" -> "array"
      [] value.kind = "dict" -> "object"
      [] OTHER -> "string"

\* _infer_type_comprehensive: the isinstance chain, then the string tests in order
_infer_type_comprehensive(value) ==
    CASE value.kind = "bool" -> "boolean"
      [] value.kind = "int" -> "integer"
      [] value.kind = "float" -> "number"
      [] value.kind = "str" ->
            IF MatchesDatePrefix(value.lit) THEN "date"
            ELSE IF MatchesUuid(value.lit) THEN "uuid"
            ELSE IF "@" \in Range(value.lit) /\ "." \in Range(value.lit) THEN "email"
            ELSE IF startswith(value.lit, <<"h","t","t","p">>) THEN "url"
            ELSE "string"
      [] value.kind = "list" -> "array"
      [] value.kind = "dict" -> "object"
      [] OTHER -> "string"

\* _infer_object_schema_comprehensive: obj.items() raises AttributeError unless obj is a dict
ObjectSchemaRaises(obj) == obj.kind # "dict"

\* _infer_object_schema_comprehensive describing every field as a string
ObjectSchemaAllStrings(obj) ==
    [type |-> "object",
     properties |-> [key \in Range(obj.keys) |->
                        [type |-> "string", example |-> FieldValue(obj, key)]],
     required |-> <<>>,
     example |-> obj]

\* _infer_object_schema_comprehensive: one entry per field, its kind and its value
_infer_object_schema_comprehensive(obj) ==
    [type |-> "object",
     properties |-> [key \in Range(obj.keys) |->
                        [type |-> _infer_type_comprehensive(FieldValue(obj, key)),
                         example |-> FieldValue(obj, key)]],
     required |-> <<>>,
     example |-> obj]

\* _analyze_response_schema_comprehensive: the bare except turns the AttributeError
\* of a first element that is no dict into {'type': 'unknown'}
_analyze_response_schema_comprehensive(resp) ==
    LET data == _safe_json(resp)
    IN  IF data.kind = "dict"
        THEN _infer_object_schema_comprehensive(data)
        ELSE IF data.kind = "list" /\ data.elems # <<>>
             THEN IF ObjectSchemaRaises(data.elems[1])
                  THEN [type |-> "unknown"]
                  ELSE [type |-> "array",
                        items |-> _infer_object_schema_comprehensive(data.elems[1]),
                        count |-> Len(data.elems)]
             ELSE [type |-> data.kind]

\* one call of _analyze_response_schema_comprehensive
AnalyzeSchema ==
    /\ pc = "infer_schema"
    /\ schema_result' = _analyze_response_schema_comprehensive(schema_input)
    /\ pc' = "schema_done"
    /\ UNCHANGED <<schema_input, kind_input, kind_result, custom_endpoints, request, response, slept>>
    /\ UNCHANGED <<discoveryVars, analysisVars, sweepVars, typeVars, crudVars, swaggerVars>>

SchemaInit ==
    /\ schema_input \in SchemaResponses
    /\ schema_result = [type |-> ""]
    /\ kind_input = JNone
    /\ kind_result = ""
    /\ pc = "infer_schema"
    /\ custom_endpoints = [is_none |-> TRUE, items |-> <<>>]
    /\ request = NoRequest
    /\ response = NetworkFailure
    /\ slept = FALSE
    /\ IdleDiscovery
    /\ IdleAnalysis
    /\ IdleSweep
    /\ IdleType
    /\ IdleCrud
    /\ IdleSwagger

SchemaNext == AnalyzeSchema

SchemaSpec == SchemaInit /\ [][SchemaNext]_vars

\* the parts the sample strings are made of
StringParts ==
    { <<"2","0","2","4","-","0","1","-","0","1">>,
      <<"3","f","a","8","5","f","6","4","-","5","7","1","7","-","4","5","6","2","-","b","3","f","c","-","2","c","9","6","3","f","6","6","a","f","a","6">>,
      <<"u","s","e","r","@","e","x","a","m","p","l","e",".","c","o","m">>,
      <<"h","t","t","p","s",":","/","/","e","x","a","m","p","l","e",".","c","o","m">>,
      <<"h","e","l","l","o">>,
      <<"@">>, <<".">>, <<"h","t","t","p">> }

RECURSIVE Concat(_)
\* the concatenation of a sequence of strings
Concat(parts) == IF parts = <<>> THEN <<>> ELSE Head(parts) \o Concat(Tail(parts))

\* the values _infer_type_comprehensive is applied to
KindInputs == {JStr(Concat(parts)) : parts \in BSeq(StringParts, MaxParts)} \cup Elements

\* one call of _infer_type_comprehensive
InferKind ==
    /\ pc = "infer_kind"
    /\ kind_result' = _infer_type_comprehensive(kind_input)
    /\ pc' = "kind_done"
    /\ UNCHANGED <<kind_input, schema_input, schema_result, custom_endpoints, request, response, slept>>
    /\ UNCHANGED <<discoveryVars, analysisVars, sweepVars, typeVars, crudVars, swaggerVars>>

KindInit ==
    /\ kind_input \in KindInputs
    /\ kind_result = ""
    /\ schema_input = BodyResponse(FALSE, JNone, <<>>)
    /\ schema_result = [type |-> ""]
    /\ pc = "infer_kind"
    /\ custom_endpoints = [is_none |-> TRUE, items |-> <<>>]
    /\ request = NoRequest
    /\ response = NetworkFailure
    /\ slept = FALSE
    /\ IdleDiscovery
    /\ IdleAnalysis
    /\ IdleSweep
    /\ IdleType
    /\ IdleCrud
    /\ IdleSwagger

KindNext == InferKind

KindSpec == KindInit /\ [][KindNext]_vars

----------------------------------------------------------------------------
(* _identify_crud_operations *)

\* most parts an endpoint path is concatenated from
MaxPathParts == 3

RECURSIVE SegmentEnd(_, _)
\* [^/]+ from s[i] on, greedy: the index of its last character, i - 1 when s[i]
\* cannot begin it
SegmentEnd(s, i) ==
    IF i > Len(s) \/ s[i] = "/" THEN i - 1 ELSE SegmentEnd(s, i + 1)

\* r'/([^/]+)(?:/([^/]+))?$' matched at s[i]: whether it matches, and whether
\* group 2 took part
ResourceMatchAt(s, i) ==
    LET j == SegmentEnd(s, i + 1)
        k == SegmentEnd(s, j + 2)
    IN  IF s[i] # "/" \/ j < i + 1
        THEN [matched |-> FALSE, group2 |-> FALSE]
        ELSE IF j = Len(s)
             THEN [matched |-> TRUE, group2 |-> FALSE]
             ELSE IF k >= j + 2 /\ k = Len(s)
                  THEN [matched |-> TRUE, group2 |-> TRUE]
                  ELSE [matched |-> FALSE, group2 |-> FALSE]

\* re.search: the match at the leftmost position that has one
resource_match(s) ==
    LET starts == {i \in DOMAIN s : ResourceMatchAt(s, i).matched}
    IN  IF starts = {}
        THEN [matched |-> FALSE, group2 |-> FALSE]
        ELSE ResourceMatchAt(s, CHOOSE i \in starts : \A j \in starts : i <= j)

CrudOps(c, r, u, d) == [create |-> c, read |-> r, update |-> u, delete |-> d]

\* _identify_crud_operations going on without a resource match
CrudWithoutNoMatchReturn(endpoint) ==
    LET endpoint_lower == lower(endpoint)
        has_id == resource_match(endpoint).group2
    IN  IF Contains(endpoint_lower, <<"a","u","t","h">>)
              \/ Contains(endpoint_lower, <<"l","o","g","i","n">>)
        THEN CrudOps(TRUE, FALSE, FALSE, FALSE)
        ELSE IF Contains(endpoint_lower, <<"s","e","a","r","c","h">>)
                  \/ Contains(endpoint_lower, <<"f","i","n","d">>)
             THEN CrudOps(FALSE, TRUE, FALSE, FALSE)
             ELSE CrudOps(~has_id, TRUE, has_id, has_id)

\* _identify_crud_operations: no match returns at once; else the shape of the
\* path, overridden by the special cases in their if/elif order
_identify_crud_operations(endpoint) ==
    LET endpoint_lower == lower(endpoint)
        has_id == resource_match(endpoint).group2
    IN  IF ~resource_match(endpoint).matched
        THEN CrudOps(FALSE, FALSE, FALSE, FALSE)
        ELSE IF Contains(endpoint_lower, <<"a","u","t","h">>)
                  \/ Contains(endpoint_lower, <<"l","o","g","i","n">>)
             THEN CrudOps(TRUE, FALSE, FALSE, FALSE)
             ELSE IF Contains(endpoint_lower, <<"s","e","a","r","c","h">>)
                       \/ Contains(endpoint_lower, <<"f","i","n","d">>)
                  THEN CrudOps(FALSE, TRUE, FALSE, FALSE)
                  ELSE CrudOps(~has_id, TRUE, has_id, has_id)

\* the parts the sample paths are made of
PathParts ==
    { <<"/">>, <<"/","u","s","e","r","s">>, <<"/","a","p","i">>, <<"/","v","1">>, <<"/","4","2">>, <<"/","a","u","t","h">>, <<"/","L","O","G","I","N">>, <<"/","s","e","a","r","c","h">>, <<"/","f","i","n","d">> }

\* the endpoints _identify_crud_operations is applied to
CrudInputs == {Concat(parts) : parts \in BSeq(PathParts, MaxPathParts)}

\* one call of _identify_crud_operations
IdentifyCrud ==
    /\ pc = "identify_crud"
    /\ crud_result' = _identify_crud_operations(crud_input)
    /\ pc' = "crud_done"
    /\ UNCHANGED <<crud_input, custom_endpoints, request, response, slept>>
    /\ UNCHANGED <<discoveryVars, analysisVars, sweepVars, typeVars, inferVars, swaggerVars>>

CrudInit ==
    /\ crud_input \in CrudInputs
    /\ crud_result = CrudOps(FALSE, FALSE, FALSE, FALSE)
    /\ pc = "identify_crud"
    /\ custom_endpoints = [is_none |-> TRUE, items |-> <<>>]
    /\ request = NoRequest
    /\ response = NetworkFailure
    /\ slept = FALSE
    /\ IdleDiscovery
    /\ IdleAnalysis
    /\ IdleSweep
    /\ IdleType
    /\ IdleInfer
    /\ IdleSwagger

CrudNext == IdentifyCrud

CrudSpec == CrudInit /\ [][CrudNext]_vars

----------------------------------------------------------------------------
(* SwaggerGenerator *)

\* longest method list of an endpoint analysis
MaxMethods == 2
\* most parameters of a method
MaxParams == 2

\* the verbs a method list can hold
Verbs == {"GET", "POST", "PATCH", "DELETE"}

\* method.lower()
method_lower(method) ==
    CASE method = "GET" -> "get"
      [] method = "POST" -> "post"
      [] method = "PUT" -> "put"
      [] method = "PATCH" -> "patch"
      [] method = "DELETE" -> "delete"

\* a Python dict with no key
EmptyDict == <<>>

\* str.replace(old, new) of single characters
replace(s, old, new) == [i \in DOMAIN s |-> IF s[i] = old THEN new ELSE s[i]]

RECURSIVE strip_underscores(_)
\* str.strip('_')
strip_underscores(s) ==
    IF s # <<>> /\ Head(s) = "_" THEN strip_underscores(Tail(s))
    ELSE IF s # <<>> /\ s[Len(s)] = "_" THEN strip_underscores(SubSeq(s, 1, Len(s) - 1))
    ELSE s

\* the characters of method.lower()
MethodLowerChars(method) ==
    CASE method = "GET" -> <<"g","e","t">>
      [] method = "POST" -> <<"p","o","s","t">>
      [] method = "PUT" -> <<"p","u","t">>
      [] method = "PATCH" -> <<"p","a","t","c","h">>
      [] method = "DELETE" -> <<"d","e","l","e","t","e">>

\* _create_operation: the operationId, f"{method_lower}_{...}"
OperationId(endpoint, method) ==
    MethodLowerChars(method) \o <<"_">>
        \o strip_underscores(replace(replace(endpoint, "/", "_"), "-", "_"))

\* parameters[method][name] with parameter_validation[method][name]: accepted and
\* required are param_info's 'accepted' and 'required' ("absent" without the key),
\* validated tells whether parameter_validation has the name, accepted_values is
\* its list
ParamEntry(name, accepted, is_required, validated, values) ==
    [name |-> name, accepted |-> accepted, required |-> is_required,
     validated |-> validated, accepted_values |-> values]

ParamNames == <<"page", "limit", "sort", "q">>

ParamEvidence ==
    [accepted : {"absent", "true", "false"}, validated : BOOLEAN,
     accepted_values : { <<>>, << <<"1">> >>, << <<"1">>, <<"a","b","c">> >> }]

\* the parameters of one method, in the order of the dict; the sample entries
\* have no 'required' key
ParamLists ==
    { [i \in DOMAIN l |->
          ParamEntry(ParamNames[i], l[i].accepted, "absent", l[i].validated,
                     l[i].accepted_values)] :
        l \in BSeq(ParamEvidence, MaxParams) }

\* endpoints[endpoint] of the analysis document
EndpointData(status, meths, params) ==
    [status |-> status, methods |-> meths, parameters |-> params]

\* the endpoints of the sample documents
SamplePaths == { <<"/","u","s","e","r","s">>, <<"/","a","u","t","h">> }

\* what a document can hold for one path: nothing, or an analysis without parameters
EndpointChoices ==
    {[present |-> FALSE, data |-> EndpointData("error", <<>>, EmptyDict)]}
        \cup {[present |-> TRUE,
               data |-> EndpointData(status, meths, [m \in Range(meths) |-> <<>>])] :
                status \in {"success", "error"}, meths \in BSeq(Verbs, MaxMethods)}

\* documents over the sample paths, with every status and method list
MethodDocuments ==
    { [loaded |-> TRUE,
       endpoints |-> [e \in {q \in SamplePaths : c[q].present} |-> c[e].data]] :
        c \in [SamplePaths -> EndpointChoices] }

\* documents with one GET endpoint and every list of parameters
ParameterDocuments ==
    { [loaded |-> TRUE,
       endpoints |-> [e \in {<<"/","u","s","e","r","s">>} |-> EndpointData("success", <<"GET">>, [m \in {"GET"} |-> l])]] :
        l \in ParamLists }

\* endpoints whose paths differ in '/', '-' and '_' only
SeparatorPaths ==
    { <<"/","u","s","e","r","-","i","t","e","m","s">>,
      <<"/","u","s","e","r","_","i","t","e","m","s">>,
      <<"/","u","s","e","r","/","i","t","e","m","s">> }

\* documents over those paths: each is absent, or a success with GET, or with
\* GET and POST
SeparatorDocuments ==
    { [loaded |-> TRUE,
       endpoints |-> [e \in {q \in SeparatorPaths : c[q] # <<>>} |->
                        EndpointData("success", c[e], [m \in Range(c[e]) |-> <<>>])]] :
        c \in [SeparatorPaths -> {<<>>, <<"GET">>, <<"GET", "POST">>}] }

\* self.analysis: a document, or {} when the file could not be loaded
AnalysisDocuments ==
    {[loaded |-> FALSE, endpoints |-> EmptyDict]}
        \cup MethodDocuments \cup ParameterDocuments \cup SeparatorDocuments

\* json.dump then json.load of a Python bool
JsonBool(b) == IF b THEN "true" ELSE "false"

\* _analyze_method_comprehensive keeps the two parts of a sweep's return under the
\* parameter's name; the document saved and loaded holds them as this entry
DocumentedParameter(name, info, validation) ==
    ParamEntry(name, JsonBool(info.accepted), JsonBool(info.required), TRUE,
               validation.accepted_values)

\* IsIncluded asking for both checks at once
IsIncludedBoth(param) ==
    /\ param.accepted = "true"
    /\ param.validated /\ Len(param.accepted_values) > 0

\* _create_operation: `if is_accepted or has_accepted_values`
IsIncluded(param) ==
    \/ param.accepted = "true"
    \/ param.validated /\ Len(param.accepted_values) > 0

\* _create_operation: the entry appended to operation['parameters']
ParamObject(param) ==
    [name |-> param.name, in |-> "query", required |-> param.required = "true",
     described |-> param.validated /\ param.accepted_values # <<>>]

RECURSIVE IncludedParams(_)
\* _create_operation: the loop over method_params.items()
IncludedParams(method_params) ==
    IF method_params = <<>>
    THEN <<>>
    ELSE (IF IsIncluded(Head(method_params))
          THEN <<ParamObject(Head(method_params))>>
          ELSE <<>>) \o IncludedParams(Tail(method_params))

\* endpoint_data.get('parameters', {}).get(method, {})
MethodParams(endpoint_data, method) ==
    IF method \in DOMAIN endpoint_data.parameters
    THEN endpoint_data.parameters[method]
    ELSE <<>>

\* _create_operation: the fixed responses, 'parameters' when the method has any,
\* 'requestBody' for POST, PUT and PATCH
_create_operation(endpoint, method, endpoint_data) ==
    [summary |-> <<method, endpoint>>, operationId |-> OperationId(endpoint, method),
     responses |-> {"200", "400", "404"}]
        @@ (IF MethodParams(endpoint_data, method) # <<>>
            THEN [parameters |-> IncludedParams(MethodParams(endpoint_data, method))]
            ELSE EmptyDict)
        @@ (IF method \in {"POST", "PUT", "PATCH"}
            THEN [requestBody |-> [required |-> TRUE]]
            ELSE EmptyDict)

\* generate_swagger_spec: path_obj of one endpoint, keyed by method.lower()
PathObject(endpoint, endpoint_data) ==
    [key \in {method_lower(m) : m \in Range(endpoint_data.methods)} |->
        _create_operation(endpoint,
                          CHOOSE m \in Range(endpoint_data.methods) : method_lower(m) = key,
                          endpoint_data)]

\* generate_swagger_spec keeping the endpoints of every status
SwaggerSpecOfEveryStatus(doc) ==
    IF ~doc.loaded
    THEN [is_empty |-> TRUE, paths |-> EmptyDict]
    ELSE [is_empty |-> FALSE,
          paths |-> [e \in DOMAIN doc.endpoints |-> PathObject(e, doc.endpoints[e])]]

\* generate_swagger_spec: {} without an analysis; else one path per endpoint whose
\* status is 'success'
generate_swagger_spec(doc) ==
    IF ~doc.loaded
    THEN [is_empty |-> TRUE, paths |-> EmptyDict]
    ELSE [is_empty |-> FALSE,
          paths |-> [e \in {q \in DOMAIN doc.endpoints : doc.endpoints[q].status = "success"} |->
                        PathObject(e, doc.endpoints[e])]]

\* one call of generate_swagger_spec
GenerateSwagger ==
    /\ pc = "generate_swagger"
    /\ swagger_spec' = generate_swagger_spec(analysis)
    /\ pc' = "swagger_done"
    /\ UNCHANGED <<analysis, custom_endpoints, request, response, slept>>
    /\ UNCHANGED <<discoveryVars, analysisVars, sweepVars, typeVars, inferVars, crudVars>>

SwaggerInit ==
    /\ analysis \in AnalysisDocuments
    /\ swagger_spec = [is_empty |-> TRUE, paths |-> EmptyDict]
    /\ pc = "generate_swagger"
    /\ custom_endpoints = [is_none |-> TRUE, items |-> <<>>]
    /\ request = NoRequest
    /\ response = NetworkFailure
    /\ slept = FALSE
    /\ IdleDiscovery
    /\ IdleAnalysis
    /\ IdleSweep
    /\ IdleType
    /\ IdleInfer
    /\ IdleCrud

SwaggerNext == GenerateSwagger

SwaggerSpec == SwaggerInit /\ [][SwaggerNext]_vars

----------------------------------------------------------------------------
(* The run of main with --swagger: the analysis is saved, then emitted *)

\* save_analysis, then SwaggerGenerator loading the file: the document of the run;
\* self.parameter_variations is empty, so every method has the parameters {}
SavedAnalysis ==
    [loaded |-> TRUE,
     endpoints |->
        IF result.status = "analyzed"
        THEN [e \in DOMAIN endpoint_analyses |->
                EndpointData(endpoint_analyses[e].status, endpoint_analyses[e].methods,
                             [m \in Range(endpoint_analyses[e].methods) |-> <<>>])]
        ELSE EmptyDict]

\* main: save_analysis and generate_swagger_spec after generate_analysis returned
EmitSwagger ==
    /\ pc = "done"
    /\ analysis' = SavedAnalysis
    /\ swagger_spec' = generate_swagger_spec(SavedAnalysis)
    /\ pc' = "emitted"
    /\ UNCHANGED <<request, response, slept>>
    /\ UNCHANGED <<discoveryVars, analysisVars, sweepVars, typeVars, inferVars, crudVars>>

\* discover_endpoints alone; every request returns or raises within self.timeout,
\* so the call keeps taking steps
DiscoveryNext ==
    \/ DiscoverStart
    \/ ProbeCustom
    \/ ReturnCustom
    \/ ProbePattern
    \/ PatternsDone
    \/ ProbeOpenapi
    \/ OpenapiDone
    \/ ProbeDoc
    \/ ReturnCatalog

\* the engine run: generate_analysis from construction to its return, then the emission
Init ==
    /\ custom_endpoints \in CustomInputs
    /\ pc = "discover_endpoints"
    /\ request = NoRequest
    /\ response = NetworkFailure
    /\ slept = FALSE
    /\ IdleDiscovery
    /\ IdleAnalysis
    /\ IdleSweep
    /\ IdleType
    /\ IdleInfer
    /\ IdleCrud
    /\ IdleSwagger

Next ==
    \/ DiscoverStart
    \/ ProbeCustom
    \/ ReturnCustom
    \/ ProbePattern
    \/ PatternsDone
    \/ ProbeOpenapi
    \/ OpenapiDone
    \/ ProbeDoc
    \/ ReturnCatalog
    \/ NoEndpoints
    \/ StartAnalysis
    \/ ProbeMethod
    \/ ReturnMethods
    \/ NoParamsRequest
    \/ SchemaFetch
    \/ EndpointDone
    \/ EmitSwagger

Spec == Init /\ [][Next]_vars

DiscoverySpec == Init /\ [][DiscoveryNext]_vars /\ WF_vars(DiscoveryNext)

\* every probing pass: the engine run, and _analyze_parameter_comprehensive called
\* for one parameter of a catalog
ProbeInit == Init \/ SweepInit

ProbeNext == Next \/ SweepNext

ProbeSpec == ProbeInit /\ [][ProbeNext]_vars

\* the status of a target that serves GET /users and POST /users and nothing else
TargetStatus(req) ==
    IF req.path = <<"/","u","s","e","r","s">> /\ req.method = "GET" THEN 200
    ELSE IF req.path = <<"/","u","s","e","r","s">> /\ req.method = "POST" THEN 201
    ELSE 404

\* the step's request, if any, is answered by that target
TargetAnswers ==
    request' # NoRequest =>
        /\ ~response'.raised
        /\ response'.status_code = TargetStatus(request')

\* the run against that target
TargetNext ==
    \/ DiscoverStart /\ TargetAnswers
    \/ ProbeCustom /\ TargetAnswers
    \/ ReturnCustom /\ TargetAnswers
    \/ ProbePattern /\ TargetAnswers
    \/ PatternsDone /\ TargetAnswers
    \/ ProbeOpenapi /\ TargetAnswers
    \/ OpenapiDone /\ TargetAnswers
    \/ ProbeDoc /\ TargetAnswers
    \/ ReturnCatalog /\ TargetAnswers
    \/ NoEndpoints /\ TargetAnswers
    \/ StartAnalysis /\ TargetAnswers
    \/ ProbeMethod /\ TargetAnswers
    \/ ReturnMethods /\ TargetAnswers
    \/ NoParamsRequest /\ TargetAnswers
    \/ SchemaFetch /\ TargetAnswers
    \/ EndpointDone /\ TargetAnswers
    \/ EmitSwagger /\ TargetAnswers

TargetSpec == Init /\ [][TargetNext]_vars

----------------------------------------------------------------------------
(* Properties *)

\* the accept-set as the specification states it
AcceptSet == {200, 201, 202, 204, 401, 403, 405, 422, 429}

\* an outcome the accept-set classifies as "exists"
Accepted(outcome) == ~outcome.raised /\ outcome.status_code \in AcceptSet

InDiscovery ==
    pc \in {"discover_endpoints", "custom_loop", "pattern_loop", "openapi_loop", "doc_loop"}

\* the step is one probe of the custom loop or of the pattern loop
ProbeStep == pc \in {"custom_loop", "pattern_loop"} /\ pc' = pc /\ sent' # sent

\* the entry the running custom or pattern loop probes at index i
LoopEntry(i) ==
    IF pc = "custom_loop"
    THEN LET s == strip(custom_endpoints.items[i])
         IN  IF s # <<>> /\ s[1] = "/" THEN s ELSE <<"/">> \o s
    ELSE endpoint_patterns[i]

C1_Classifier == ~response.raised => (_is_valid_endpoint(response) <=> Accepted(response))

C1_OneProbePerEntry ==
    pc \in {"custom_loop", "pattern_loop"} =>
        /\ Len(sent) = idx - 1
        /\ \A i \in DOMAIN sent : sent[i].path = LoopEntry(i)

C1_ProbeEffect ==
    ProbeStep =>
        /\ idx' = idx + 1
        /\ request'.path = LoopEntry(idx)
        /\ discovered_endpoints' =
              IF Accepted(response')
              THEN Append(discovered_endpoints, LoopEntry(idx))
              ELSE discovered_endpoints

\* C1: a probe response is classified as an existing endpoint iff its status is in
\* {200,201,202,204,401,403,405,422,429}; a probe with any other status, or one that
\* raised, adds nothing to the discovered list; each catalog entry or supplied path
\* is probed once, never again.
C1_AcceptSetClassifier ==
    /\ [](C1_Classifier /\ C1_OneProbePerEntry)
    /\ [][C1_ProbeEffect]_vars

\* C1 happens: the first pattern was accepted, the second probe raised and was not repeated
C1_Witness ==
    /\ pc = "pattern_loop"
    /\ idx = 3
    /\ response.raised
    /\ discovered_endpoints = << endpoint_patterns[1] >>

\* C2: the list discover_endpoints returns never holds the same path twice, in
\* catalog mode and in explicit-list mode alike.
C2_NoDuplicatePaths == pc = "discovered" => NoDup(endpoints)

\* C3: every path discover_endpoints returns begins with '/', whatever its source.
C3_PathsBeginWithSlash ==
    pc = "discovered" => \A i \in DOMAIN endpoints : startswith(endpoints[i], <<"/">>)

C4_Requests ==
    (CustomMode /\ InDiscovery) =>
        /\ pc \in {"discover_endpoints", "custom_loop"}
        /\ pc = "custom_loop" =>
              /\ Len(sent) = idx - 1
              /\ \A i \in DOMAIN sent :
                    sent[i] = Request("GET", LoopEntry(i), "explicit-list")

C4_Steps ==
    /\ (ProbeStep /\ pc = "custom_loop") =>
          discovered_endpoints' =
              IF Accepted(response')
              THEN Append(discovered_endpoints, LoopEntry(idx))
              ELSE discovered_endpoints
    /\ (pc = "custom_loop" /\ pc' = "discovered") =>
          /\ idx = Len(custom_endpoints.items) + 1
          /\ endpoints' = discovered_endpoints

\* C4: in explicit-list mode discover_endpoints issues exactly one GET per supplied
\* path, normalized to begin with '/', and no request to a catalog pattern, a
\* specification URL or a documentation URL; it returns exactly the paths whose
\* probe the accept-set classified as existing, in the order supplied.
C4_ExplicitListMode ==
    /\ []C4_Requests
    /\ [][C4_Steps]_vars

\* C4 happens: two paths were supplied, the first refused, the second confirmed
C4_Witness ==
    /\ pc = "discovered"
    /\ custom_endpoints.items = << <<"u","s","e","r","s">>, <<" ","/","d","a","t","a"," ">> >>
    /\ endpoints = << <<"/","d","a","t","a">> >>

\* the verbs of [GET, POST] whose probe the accept-set classified as supported
QualifyingVerbs ==
    SelectSeq(<<1, 2>>, LAMBDA i : Accepted(method_status[i]))

VerbName(i) == IF i = 1 THEN "GET" ELSE "POST"

\* C5: _discover_methods returns a non-empty sub-sequence of [GET, POST]: exactly the
\* verbs whose probe status is in the accept-set, in that order, and [GET] when
\* neither probe qualifies (also when both raise).
C5_MethodsReturned ==
    (pc = "analyze_method" /\ method_status # <<>>) =>
        /\ Len(method_status) = 2
        /\ methods # <<>>
        /\ methods = IF QualifyingVerbs = <<>>
                     THEN <<"GET">>
                     ELSE [i \in DOMAIN QualifyingVerbs |-> VerbName(QualifyingVerbs[i])]

\* C5 happens: both probes raised and the fallback was returned
C5_Witness ==
    /\ pc = "analyze_method"
    /\ Len(method_status) = 2
    /\ method_status[1].raised
    /\ method_status[2].raised
    /\ methods = <<"GET">>

\* C6: every HTTP request of an engine run uses the verb GET or POST.
C6_OnlyGetAndPost == request # NoRequest => request.method \in {"GET", "POST"}

\* C6 happens: a POST was sent while a method was analyzed
C6_Witness == request.method = "POST" /\ request.source = "no-params"

SweepDone == pc = "sweep_done"

Status(p) == IF p.outcome.raised THEN 0 ELSE p.outcome.status_code

\* C7 as claimed: every probed value (default, alternative, invalid) answered 200,
\* 401 or 403 is in accepted_values and not in rejected_values after the sweep.
C7_AcceptedBucket ==
    SweepDone =>
        \A i \in DOMAIN sweep_log :
            Status(sweep_log[i]) \in {200, 401, 403} =>
                /\ sweep_log[i].value \in Range(accepted_values)
                /\ sweep_log[i].value \notin Range(rejected_values)

\* C7 amended: a default or alternative value answered 200, 401 or 403 is in
\* accepted_values after the sweep, and in rejected_values only if another probe of
\* the same value was answered 400; the probe of the invalid value never adds to
\* accepted_values.
C7_AcceptedBucketAmended ==
    SweepDone =>
        /\ \A i \in DOMAIN sweep_log :
              (Status(sweep_log[i]) \in {200, 401, 403} /\ sweep_log[i].kind # "error") =>
                  /\ sweep_log[i].value \in Range(accepted_values)
                  /\ sweep_log[i].value \in Range(rejected_values) =>
                        \E j \in DOMAIN sweep_log :
                            /\ sweep_log[j].value = sweep_log[i].value
                            /\ Status(sweep_log[j]) = 400
        /\ \A v \in Range(accepted_values) :
              \E i \in DOMAIN sweep_log :
                  /\ sweep_log[i].kind # "error"
                  /\ sweep_log[i].value = v
                  /\ Status(sweep_log[i]) \in {200, 401, 403}

\* C7 happens: the default was answered 401 and the invalid value 200
C7_Witness ==
    /\ SweepDone
    /\ Status(sweep_log[1]) = 401
    /\ Status(sweep_log[Len(sweep_log)]) = 200
    /\ param_info.error_value # param_info.default

\* C8 as claimed: every probed value answered 400 is in rejected_values and not in
\* accepted_values after the sweep, also when the same value is probed twice and
\* answered differently.
C8_RejectedBucket ==
    SweepDone =>
        \A i \in DOMAIN sweep_log :
            Status(sweep_log[i]) = 400 =>
                /\ sweep_log[i].value \in Range(rejected_values)
                /\ sweep_log[i].value \notin Range(accepted_values)

\* C8 amended: every probed value answered 400 is in rejected_values after the
\* sweep, and in accepted_values only if another probe of the same value, as the
\* default or an alternative, was answered 200, 401 or 403.
C8_RejectedBucketAmended ==
    SweepDone =>
        \A i \in DOMAIN sweep_log :
            Status(sweep_log[i]) = 400 =>
                /\ sweep_log[i].value \in Range(rejected_values)
                /\ sweep_log[i].value \in Range(accepted_values) =>
                      \E j \in DOMAIN sweep_log :
                          /\ j # i
                          /\ sweep_log[j].kind # "error"
                          /\ sweep_log[j].value = sweep_log[i].value
                          /\ Status(sweep_log[j]) \in {200, 401, 403}

\* C8 happens: the same value is the default and an alternative, answered 200 then 400
C8_Witness ==
    /\ SweepDone
    /\ Len(param_info.test_values) >= 1
    /\ param_info.test_values[1] = param_info.default
    /\ Status(sweep_log[1]) = 200
    /\ Status(sweep_log[2]) = 400

\* C9: after a sweep, required is true iff rejected_values is non-empty and
\* accepted_values is empty; only accepted, mixed, or both empty give false.
C9_Requiredness ==
    SweepDone => (required <=> (rejected_values # <<>> /\ accepted_values = <<>>))

\* C9 happens: a sweep ended with rejections only
C9_Witness == SweepDone /\ required /\ rejected_values # <<>> /\ accepted_values = <<>>

\* the type the rule table gives a set of values
TypeOfSet(S) ==
    IF S = {} THEN "string"
    ELSE IF \A v \in S : v # <<>> /\ Range(v) \subseteq Digits THEN "integer"
    ELSE IF \A v \in S : lower(v) = <<"t","r","u","e">> \/ lower(v) = <<"f","a","l","s","e">>
         THEN "boolean"
    ELSE IF \A v \in S : MatchesDatePattern(v) THEN "date"
    ELSE "string"

\* C10: _infer_parameter_type gives string for no values, else integer if every
\* value is all digits, else boolean if every value is true/false ignoring case,
\* else date if every value is YYYY-MM-DD, else string; the result depends only on
\* the set of the values, not on their order or multiplicity.
C10_TypeInference == pc = "type_done" => type_result = TypeOfSet(Range(type_input))

\* C10 happens: two different boolean words in one list
C10_Witness ==
    /\ pc = "type_done"
    /\ Len(type_input) = 3
    /\ type_input[1] # type_input[2]
    /\ type_input[1] = type_input[3]
    /\ type_result = "boolean"

SchemaDone == pc = "schema_done"

\* the body json() returned to the running schema inference
BodyData == schema_input.data

\* C11: for a JSON list body the schema has type array; a non-empty list has an
\* items schema inferred from its first element, of whatever kind, and an object
\* first element gives an object items schema
C11_ListSchema ==
    (SchemaDone /\ schema_input.parses /\ BodyData.kind = "list") =>
        /\ schema_result.type = "array"
        /\ BodyData.elems # <<>> =>
              /\ "items" \in DOMAIN schema_result
              /\ BodyData.elems[1].kind = "dict" => schema_result.items.type = "object"

\* the kinds of the values that are no strings
KindTable ==
    [bool |-> "boolean", int |-> "integer", float |-> "number", list |-> "array",
     dict |-> "object", NoneType |-> "string"]

StringKinds == {"date", "uuid", "email", "url", "string"}

\* the body is an object whose schema has been inferred
ObjectBodyDone == SchemaDone /\ schema_input.parses /\ BodyData.kind = "dict"

\* C12 as stated: for a JSON object body each field's schema is inferred
\* recursively, so a field holding an object carries properties and a field
\* holding a list carries items
C12_RecursiveFields ==
    ObjectBodyDone =>
        \A key \in Range(BodyData.keys) :
            /\ FieldValue(BodyData, key).kind = "dict" =>
                  "properties" \in DOMAIN schema_result.properties[key]
            /\ FieldValue(BodyData, key).kind = "list" =>
                  "items" \in DOMAIN schema_result.properties[key]

\* C12 amended: for a JSON object body the schema has one entry per field, made of
\* the kind of the field's value and the value as example and nothing else: a
\* field holding an object is only typed object, one holding a list only array
C12_FieldSchemasAmended ==
    ObjectBodyDone =>
        /\ schema_result.type = "object"
        /\ DOMAIN schema_result.properties = Range(BodyData.keys)
        /\ \A key \in Range(BodyData.keys) :
              LET value == FieldValue(BodyData, key)
                  field == schema_result.properties[key]
              IN  /\ DOMAIN field = {"type", "example"}
                  /\ field.example = value
                  /\ IF value.kind = "str"
                     THEN field.type \in StringKinds
                     ELSE field.type = KindTable[value.kind]

\* an object body with a field holding an object and a field holding a list
C12_Witness ==
    /\ ObjectBodyDone
    /\ \E key \in Range(BodyData.keys) :
          /\ FieldValue(BodyData, key).kind = "dict"
          /\ FieldValue(BodyData, key).keys # <<>>
          /\ schema_result.properties[key].type = "object"
    /\ \E key \in Range(BodyData.keys) :
          /\ FieldValue(BodyData, key).kind = "list"
          /\ schema_result.properties[key].type = "array"

\* C13 as stated: a body that is no JSON gives the schema {type: unknown}
C13_NonJsonUnknown ==
    (SchemaDone /\ ~schema_input.parses) => schema_result = [type |-> "unknown"]

\* C13 amended: a body that is no JSON gives the schema {type: str}, the type name
\* of the body text, and the inference returns for every response
C13_NonJsonAmended ==
    /\ (SchemaDone /\ ~schema_input.parses) => schema_result = [type |-> "str"]
    /\ pc = "infer_schema" => ENABLED AnalyzeSchema

\* an HTML body has been analyzed
C13_Witness ==
    /\ SchemaDone
    /\ ~schema_input.parses
    /\ schema_input.text # <<>>
    /\ schema_result.type = "str"

KindDone == pc = "kind_done"

\* an ISO date at the start of the string
IsoDatePrefix(s) ==
    /\ Len(s) >= 10
    /\ \A i \in 1..10 : IF i \in {5, 8} THEN s[i] = "-" ELSE s[i] \in Digits

\* the canonical form of a <<"3","f","a","8","5","f","6","4","-","5","7","1","7","-","4","5","6","2","-","b","3","f","c","-","2","c","9","6","3","f","6","6","a","f","a","6">>: 8-4-4-4-12 lowercase hexadecimal digits
CanonicalUuid(s) ==
    /\ Len(s) = 36
    /\ \A i \in 1..36 : IF i \in {9, 14, 19, 24} THEN s[i] = "-" ELSE s[i] \in HexLower

\* the rules in their priority order, with the kind each one gives
KindRules(s) ==
    << <<IsoDatePrefix(s), "date">>,
       <<CanonicalUuid(s), "uuid">>,
       <<(\E i \in DOMAIN s : s[i] = "@") /\ (\E i \in DOMAIN s : s[i] = "."), "email">>,
       <<Len(s) >= 4 /\ SubSeq(s, 1, 4) = <<"h","t","t","p">>, "url">>,
       <<TRUE, "string">> >>

\* the kind of the first rule that matches
FirstMatch(s) ==
    LET rules == KindRules(s)
        first == CHOOSE i \in DOMAIN rules :
                    rules[i][1] /\ \A j \in 1..(i - 1) : ~rules[j][1]
    IN  rules[first][2]

\* C14: for a string, _infer_type_comprehensive returns the kind of the first
\* matching rule in the order date, uuid, email, url, string; the five examples
\* get date, uuid, email, url and string
C14_StringPriority ==
    (KindDone /\ kind_input.kind = "str") =>
        /\ kind_result = FirstMatch(kind_input.lit)
        /\ kind_input.lit = <<"2","0","2","4","-","0","1","-","0","1">> => kind_result = "date"
        /\ kind_input.lit = <<"3","f","a","8","5","f","6","4","-","5","7","1","7","-","4","5","6","2","-","b","3","f","c","-","2","c","9","6","3","f","6","6","a","f","a","6">> => kind_result = "uuid"
        /\ kind_input.lit = <<"u","s","e","r","@","e","x","a","m","p","l","e",".","c","o","m">> => kind_result = "email"
        /\ kind_input.lit = <<"h","t","t","p","s",":","/","/","e","x","a","m","p","l","e",".","c","o","m">> => kind_result = "url"
        /\ kind_input.lit = <<"h","e","l","l","o">> => kind_result = "string"

\* a string matching the email rule and the url rule has been classified
C14_Witness ==
    /\ KindDone
    /\ kind_input.kind = "str"
    /\ KindRules(kind_input.lit)[3][1]
    /\ KindRules(kind_input.lit)[4][1]
    /\ kind_result = "email"

CrudDone == pc = "crud_done"

\* the path contains the word, whatever the case of its letters
HasWord(path, word) == \E i \in 1..Len(path) : startswith(lower(SubSeq(path, i, Len(path))), word)

MentionsAuth(path) == HasWord(path, <<"a","u","t","h">>) \/ HasWord(path, <<"l","o","g","i","n">>)

MentionsSearch(path) == HasWord(path, <<"s","e","a","r","c","h">>) \/ HasWord(path, <<"f","i","n","d">>)

\* C15: the classification depends only on the path: /users, /api/users and
\* /api/v1/users are create and read only, /users/42 is read, update and delete,
\* and /auth/login is create only
C15_CrudByShape ==
    CrudDone =>
        /\ crud_input \in {<<"/","u","s","e","r","s">>, <<"/","a","p","i">> \o <<"/","u","s","e","r","s">>, <<"/","a","p","i">> \o <<"/","v","1">> \o <<"/","u","s","e","r","s">>} =>
              crud_result = CrudOps(TRUE, TRUE, FALSE, FALSE)
        /\ crud_input = <<"/","u","s","e","r","s">> \o <<"/","4","2">> => crud_result = CrudOps(FALSE, TRUE, TRUE, TRUE)
        /\ crud_input = <<"/","a","u","t","h">> \o <<"/","L","O","G","I","N">> => crud_result = CrudOps(TRUE, FALSE, FALSE, FALSE)

\* C16 as stated: every path that begins with '/' and mentions neither auth nor
\* login has read = true, '/' and the paths ending in '/' included; every path
\* that mentions search or find is read only
C16_ReadAlways ==
    (CrudDone /\ crud_input # <<>>) =>
        /\ ~MentionsAuth(crud_input) => crud_result.read
        /\ MentionsSearch(crud_input) => crud_result = CrudOps(FALSE, TRUE, FALSE, FALSE)

\* the path ends in a non-empty segment
EndsInSegment(path) == path # <<>> /\ path[Len(path)] # "/"

\* C16 amended: a path ending in a non-empty segment that mentions neither auth
\* nor login has read = true; '/' and every path ending in '/' has all four
\* operations false, whatever it mentions; a path ending in a non-empty segment
\* that mentions search or find and neither auth nor login is read only
C16_ReadAmended ==
    (CrudDone /\ crud_input # <<>>) =>
        /\ (EndsInSegment(crud_input) /\ ~MentionsAuth(crud_input)) => crud_result.read
        /\ ~EndsInSegment(crud_input) => crud_result = CrudOps(FALSE, FALSE, FALSE, FALSE)
        /\ (EndsInSegment(crud_input) /\ MentionsSearch(crud_input)
                /\ ~MentionsAuth(crud_input)) =>
              crud_result = CrudOps(FALSE, TRUE, FALSE, FALSE)

\* a search path ending in '/' has been classified, all false
C16_Witness ==
    /\ CrudDone
    /\ crud_input = <<"/","s","e","a","r","c","h">> \o <<"/">>
    /\ ~crud_result.read

\* generate_analysis has returned the analysis document
Analyzed == pc = "done" /\ result.status = "analyzed"

\* C17: the discovery rate is discovered/cataloged in catalog mode, is never above
\* 100%, and is zero after a run in explicit-list mode
C17_DiscoveryRate ==
    Analyzed =>
        /\ result.summary.discovery_rate <= 1000
        /\ CustomMode => result.summary.discovery_rate = 0
        /\ ~CustomMode =>
              result.summary.discovery_rate * Len(endpoint_patterns) * 2
                  \in (2000 * Len(endpoints) - Len(endpoint_patterns))
                          .. (2000 * Len(endpoints) + Len(endpoint_patterns))

SwaggerDone == pc = "swagger_done" /\ analysis.loaded

\* the endpoints of the document whose status is 'success'
SuccessEndpoints == {e \in DOMAIN analysis.endpoints : analysis.endpoints[e].status = "success"}

LowerVerb == [GET |-> "get", POST |-> "post", PUT |-> "put", PATCH |-> "patch", DELETE |-> "delete"]

EmittedNames(operation) ==
    IF "parameters" \in DOMAIN operation
    THEN {operation.parameters[i].name : i \in DOMAIN operation.parameters}
    ELSE {}

\* C19: a parameter of a method is in the emitted operation exactly when its
\* profile's accepted is true or its validation info has accepted values
C19_ParameterIncluded ==
    SwaggerDone =>
        \A e \in SuccessEndpoints :
            \A m \in Range(analysis.endpoints[e].methods) :
                \A i \in DOMAIN analysis.endpoints[e].parameters[m] :
                    LET param == analysis.endpoints[e].parameters[m][i]
                    IN  (param.name \in EmittedNames(swagger_spec.paths[e][LowerVerb[m]]))
                            <=> \/ param.accepted = "true"
                                \/ param.validated /\ param.accepted_values # <<>>

\* a method with a parameter passing only the first check, one passing only the
\* second, and the first one emitted
C19_Witness ==
    /\ SwaggerDone
    /\ \E e \in {q \in SuccessEndpoints : "GET" \in DOMAIN analysis.endpoints[q].parameters} :
          LET params == analysis.endpoints[e].parameters["GET"]
          IN  /\ Len(params) = 2
              /\ params[1].accepted = "true" /\ ~params[1].validated
              /\ params[2].accepted = "false" /\ params[2].validated
              /\ params[2].accepted_values # <<>>
              /\ EmittedNames(swagger_spec.paths[e]["get"]) = {params[1].name, params[2].name}

\* C20: in catalog mode against a target that answers 200 to GET /users, 201 to
\* POST /users and 404 to everything else, discovery returns just /users, its
\* methods are [GET, POST], and the emitted document has the one path /users with
\* the two operations get and post
C20_EndToEnd ==
    ~CustomMode =>
        /\ pc \notin {"discover_endpoints", "pattern_loop", "openapi_loop", "doc_loop"} =>
              endpoints = << <<"/","u","s","e","r","s">> >>
        /\ pc \in {"done", "emitted"} =>
              /\ DOMAIN endpoint_analyses = { <<"/","u","s","e","r","s">> }
              /\ endpoint_analyses[<<"/","u","s","e","r","s">>].methods = <<"GET", "POST">>
        /\ pc = "emitted" =>
              /\ DOMAIN swagger_spec.paths = { <<"/","u","s","e","r","s">> }
              /\ DOMAIN swagger_spec.paths[<<"/","u","s","e","r","s">>] = {"get", "post"}

\* the catalog run against the target has emitted its document
C20_Witness ==
    /\ ~CustomMode
    /\ pc = "emitted"
    /\ request = Request("POST", <<"/","u","s","e","r","s">>, "no-params")
    /\ response.status_code = 201
    /\ <<"/","u","s","e","r","s">> \in DOMAIN swagger_spec.paths

\* the step issues one request of the run
RequestStep ==
    \/ ProbeCustom
    \/ ProbePattern
    \/ ProbeOpenapi
    \/ ProbeDoc
    \/ ProbeMethod
    \/ NoParamsRequest
    \/ SchemaFetch

\* C27: every request of a run, whether it returned a response or failed, was
\* followed by time.sleep(self.delay) before the next request is issued
C27_DelayBetweenRequests ==
    [][RequestStep /\ request # NoRequest => slept]_vars

\* C30: the metadata of the analysis document records the explicit-list mode
\* (custom_endpoints true, total_patterns_tested 0) exactly when discovery ran
\* the explicit-list branch, an empty caller-supplied list included
C30_MetadataMode ==
    result.status = "analyzed" =>
        /\ result.metadata.custom_endpoints <=> mode = "explicit-list"
        /\ result.metadata.total_patterns_tested = 0 <=> mode = "explicit-list"

\* C23: when discovery returns no endpoint the run ends with the error document
\* 'No endpoints discovered': no method probe, parameter probe or schema fetch is
\* issued, no endpoint analysis exists, and no OpenAPI document is emitted
C23_NoEndpointsTerminal ==
    result.status = "error" =>
        /\ result.message = "No endpoints discovered"
        /\ request.source \notin {"method-probe", "no-params", "parameter-probe", "schema-fetch"}
        /\ DOMAIN endpoint_analyses = {}
        /\ pc = "emitted" =>
              /\ analysis.endpoints = EmptyDict
              /\ swagger_spec.is_empty

\* the values a sweep has to probe, in the order of the protocol
SweepPlan == <<param_info.default>> \o param_info.test_values \o <<param_info.error_value>>

\* the kind of the i-th probe of the protocol
PlanKind(i) ==
    IF i = 1 THEN "default" ELSE IF i = Len(SweepPlan) THEN "error" ELSE "test"

\* the probe put its value into one of the two buckets
Bucketed(probe) ==
    /\ ~probe.outcome.raised
    /\ IF probe.kind = "error"
       THEN probe.outcome.status_code = 400
       ELSE probe.outcome.status_code \in {200, 401, 403, 400}

\* C24: the sweep issues one request per value, in the order default, each
\* alternative in catalog order, invalid value; whatever the earlier probes
\* returned or raised the next one is issued, and a status outside
\* {200, 401, 403, 400} or an exception only leaves the value out of both buckets
C24_SweepOrder ==
    /\ Len(sweep_log) <= Len(SweepPlan)
    /\ \A i \in DOMAIN sweep_log :
          /\ sweep_log[i].value = SweepPlan[i]
          /\ sweep_log[i].kind = PlanKind(i)
    /\ sweep_log # <<>> =>
          request = Request(sweep_method, sweep_log[Len(sweep_log)].value, "parameter-probe")
    /\ SweepDone <=> Len(sweep_log) = Len(SweepPlan)
    /\ ~SweepDone => ENABLED SweepNext
    /\ Len(accepted_values) + Len(rejected_values) =
          Cardinality({i \in DOMAIN sweep_log : Bucketed(sweep_log[i])})

\* a finished sweep of four values whose first probe raised and whose second one
\* returned 404: the two alternatives that follow were probed and bucketed
C24_Witness ==
    /\ SweepDone
    /\ Len(sweep_log) = 4
    /\ sweep_log[1].outcome.raised
    /\ sweep_log[2].outcome.status_code = 404 /\ ~sweep_log[2].outcome.raised
    /\ sweep_log[3].outcome.status_code = 200 /\ ~sweep_log[3].outcome.raised
    /\ sweep_log[4].outcome.status_code = 400 /\ ~sweep_log[4].outcome.raised
    /\ accepted_values = <<param_info.test_values[2]>>
    /\ rejected_values = <<param_info.error_value>>

\* the message mentions the parameter's name, whatever the case of either
Mentions(msg, name) == Contains(lower(msg), lower(name))

\* the candidate fields of an error body that are present, as indexes of the order
\* error, message, detail, description
Candidates(body) ==
    IF body.kind = "dict"
    THEN {i \in DOMAIN error_fields : error_fields[i] \in Range(body.keys)}
    ELSE {}

\* the message of the i-th candidate field
CandidateMessage(body, i) == str(FieldValue(body, error_fields[i]))

\* the last probe of the sweep log
LastProbe == sweep_log[Len(sweep_log)]

SweptProfile == parameter_info(validation_info, param_info.default)

\* the operation emitted for the swept method of an endpoint whose analysis holds
\* the sweep's return under the parameter's name
SweptOperation ==
    _create_operation(<<"/","u","s","e","r","s">>, sweep_method,
        EndpointData("success", <<sweep_method>>,
            [m \in {sweep_method} |->
                <<DocumentedParameter(param_name, SweptProfile, validation_info)>>]))

\* C29: the profile a sweep returns agrees with its validation info (accepted
\* exactly when accepted_values is not empty, the same type and required), and the
\* parameter is emitted into the operation only with required = false: a
\* parameter found required has no accepted value and is not emitted
C29_ProfileAgrees ==
    SweepDone =>
        LET profile == SweptProfile
            parameters == SweptOperation.parameters
        IN  /\ profile.accepted <=> validation_info.accepted_values # <<>>
            /\ profile.type = validation_info.type
            /\ profile.required = validation_info.required
            /\ profile.default = param_info.default
            /\ \A i \in DOMAIN parameters :
                  /\ parameters[i].name = param_name
                  /\ parameters[i].required = FALSE
            /\ parameters # <<>> <=> accepted_values # <<>>
            /\ required =>
                  /\ accepted_values = <<>>
                  /\ parameters = <<>>

\* a sweep that found the parameter required: every probe was rejected, the
\* profile says required and not accepted, and the operation has no parameter
C29_Witness ==
    /\ SweepDone
    /\ required
    /\ Len(rejected_values) = Len(sweep_log)
    /\ Len(sweep_log) >= 3
    /\ SweptProfile.required /\ ~SweptProfile.accepted
    /\ SweptOperation.parameters = <<>>

\* the operations of the emitted document, as pairs of a path and a method key
EmittedOperations ==
    {o \in (DOMAIN swagger_spec.paths) \X {"get", "post", "put", "patch", "delete"} :
        o[2] \in DOMAIN swagger_spec.paths[o[1]]}

\* C28: no two operations of an emitted document have the same operationId, paths
\* that differ only in '/', '-' and '_' included
C28_UniqueOperationIds ==
    SwaggerDone =>
        \A o1, o2 \in EmittedOperations :
            o1 # o2 =>
                swagger_spec.paths[o1[1]][o1[2]].operationId
                    # swagger_spec.paths[o2[1]][o2[2]].operationId

\* where the run is: the phase (discovery, analysis of the endpoints, summary,
\* emission), the endpoint, the part of its analysis (method probes, then the
\* methods one by one), the method or loop index, and for a method whether its
\* request without parameters is behind it
Position ==
    CASE pc = "analyze_method" -> <<2, ep_idx, 2, m_idx, 0>>
      [] pc = "schema_fetch" -> <<2, ep_idx, 2, m_idx, 1>>
      [] pc = "discover_methods" -> <<2, ep_idx, 1, m_idx, 0>>
      [] pc = "done" -> <<3, 0, 0, 0, 0>>
      [] pc = "emitted" -> <<4, 0, 0, 0, 0>>
      [] pc = "discovered" -> <<1, 0, 0, 0, 0>>
      [] pc = "doc_loop" -> <<0, 0, 3, idx, 0>>
      [] pc = "openapi_loop" -> <<0, 0, 2, idx, 0>>
      [] pc \in {"custom_loop", "pattern_loop"} -> <<0, 0, 1, idx, 0>>
      [] pc = "discover_endpoints" -> <<0, 0, 0, 0, 0>>

\* p comes before q in the lexicographic order
Before(p, q) ==
    \/ p[1] < q[1]
    \/ p[1] = q[1] /\ p[2] < q[2]
    \/ p[1] = q[1] /\ p[2] = q[2] /\ p[3] < q[3]
    \/ p[1] = q[1] /\ p[2] = q[2] /\ p[3] = q[3] /\ p[4] < q[4]
    \/ p[1] = q[1] /\ p[2] = q[2] /\ p[3] = q[3] /\ p[4] = q[4] /\ p[5] < q[5]

DiscoverySources == {"explicit-list", "pattern-catalog", "spec-document", "documentation"}

\* the step issues a request: one iteration of a discovery loop, one method
\* probe, the request of a method without parameters, or its schema fetch
IssuesRequest ==
    \/ InDiscovery /\ Len(sent') = Len(sent) + 1
    \/ pc = "discover_methods" /\ m_idx <= Len(test_methods)
    \/ pc = "analyze_method" /\ m_idx <= Len(methods)
    \/ pc = "schema_fetch"

\* the request issued by the step belongs to the position the run is at
RequestInPlace ==
    /\ request'.source \in DiscoverySources <=> InDiscovery
    /\ request'.source = "method-probe" <=> pc = "discover_methods"
    /\ request'.source = "no-params" <=> pc = "analyze_method"
    /\ request'.source = "schema-fetch" <=> pc = "schema_fetch"
    /\ ~InDiscovery => request'.path = endpoints[ep_idx]
    /\ pc = "discover_methods" => request'.method = test_methods[m_idx]
    /\ pc \in {"analyze_method", "schema_fetch"} => request'.method = methods[m_idx]

\* C26: the requests of a run are ordered by phase: the run never goes back to an
\* earlier position; every request is issued at the position of its kind
\* (discovery, then per endpoint the probes of GET and POST, then the requests of
\* its methods one after the other) and moves the run forward; the summary is
\* computed when the last endpoint has been analyzed and no request follows it
C26_PhaseOrder ==
    [][ /\ IF IssuesRequest
           THEN /\ Before(Position, Position')
                /\ RequestInPlace
                /\ result.status = ""
           ELSE /\ Position = Position' \/ Before(Position, Position')
                /\ UNCHANGED <<request, response>>
        /\ result'.status = "analyzed" /\ result.status # "analyzed" =>
              /\ ep_idx = Len(endpoints)
              /\ m_idx > Len(methods)
              /\ Range(endpoints) = DOMAIN endpoint_analyses' ]_vars

\* the second endpoint's POST probe has just been issued: every request of the
\* first endpoint is behind it
C26_Witness ==
    /\ pc = "discover_methods"
    /\ ep_idx = 2
    /\ m_idx = 3
    /\ request = Request("POST", endpoints[2], "method-probe")
    /\ endpoints[1] \in DOMAIN endpoint_analyses
    /\ endpoints[1] # endpoints[2]

\* the step issues a probe of the sweep
IssuesSweepProbe == pc \in {"sweep_default", "sweep_values"}

\* the loop index of the pass the run is in
LoopIndex ==
    IF InDiscovery THEN idx
    ELSE IF pc \in {"sweep_default", "sweep_values"} THEN Len(sweep_log)
    ELSE m_idx

\* C21: a request that raises (timeout, connection error) in discovery, method
\* probing, the parameter sweep, the request without parameters or the schema
\* fetch is absorbed where it was issued: the lists of discovered endpoints and of
\* supported methods and the two buckets are left as they were, no result is
\* produced by the failure, and the pass goes on with the probe that follows
C21_FailureAbsorbed ==
    [][ (IssuesRequest \/ IssuesSweepProbe) /\ response'.raised =>
            /\ UNCHANGED <<discovered_endpoints, doc_discovered, endpoints, methods,
                           endpoint_analyses, result, accepted_values, rejected_values,
                           validation_patterns>>
            /\ IF pc = "schema_fetch"
               THEN pc' = "analyze_method" /\ m_idx' = m_idx + 1
               ELSE IF pc = "analyze_method"
               THEN IF methods[m_idx] = "GET"
                    THEN pc' = "schema_fetch" /\ m_idx' = m_idx
                    ELSE pc' = pc /\ m_idx' = m_idx + 1
               ELSE IF pc = "sweep_default"
               THEN pc' = "sweep_values" /\ Len(sweep_log') = 1
               ELSE IF pc = "sweep_values"
               THEN /\ Len(sweep_log') = Len(sweep_log) + 1
                    /\ pc' = IF Len(sweep_log') = Len(SweepPlan) THEN "sweep_done" ELSE pc
               ELSE pc' = pc /\ LoopIndex' = LoopIndex + 1 ]_vars

\* a run whose last request, a schema fetch, raised: the analysis was completed
\* and the document emitted
C21_Witness ==
    /\ pc = "emitted"
    /\ result.status = "analyzed"
    /\ response = NetworkFailure
    /\ request.source = "schema-fetch"
    /\ Len(endpoints) = 2

\* the most requests one call of discover_endpoints can issue in the mode it runs
RequestBound ==
    IF CustomMode
    THEN Len(custom_endpoints.items)
    ELSE Len(endpoint_patterns) + Len(openapi_urls) + Len(doc_urls)

\* C22: discover_endpoints returns in either mode, whatever the requests come
\* back with; until then it has issued no more requests than the supplied list,
\* or the catalog plus the specification-document and documentation URL lists,
\* has entries; and when every request raised it returns the empty list
C22_DiscoveryTerminates ==
    /\ <>(pc = "discovered")
    /\ [](Len(sent) <= RequestBound)
    /\ [][pc # "discovered" /\ pc' = "discovered" =>
            /\ Len(sent) <= RequestBound
            /\ all_raised => endpoints' = <<>>]_vars

\* the catalog mode with every request raised, about to return: all the
\* patterns, specification documents and documentation pages were asked for
C22_Witness ==
    /\ pc = "doc_loop"
    /\ idx > Len(doc_urls)
    /\ all_raised
    /\ Len(sent) = Len(endpoint_patterns) + Len(openapi_urls) + Len(doc_urls)
    /\ discovered_endpoints = <<>>
    /\ doc_discovered = <<>>

====
